---------------------------- MODULE Spec2Model ----------------------------
(***************************************************************************)
(* AML risk-scoring core of LauzHACK: the feature computers, the feature   *)
(* aggregator (run_all_features), the population ranker                    *)
(* (analyze_top_suspects) and the transaction normalizer                   *)
(* (_prepare_transactions).                                                *)
(*                                                                         *)
(* Conventions.  Python None is None (NoneId where a string is expected),   *)
(* NaN is NaN.  A float that is a quotient of small integers is kept exact *)
(* as [num, den];                                                          *)
(* round(x, 2) yields an integer number of hundredths.  The formatted      *)
(* text of a risk reason is kept as a short tag.                           *)
(***************************************************************************)
EXTENDS Integers, Sequences, FiniteSets, TLC

VARIABLES
    \* ---- calculate_aggregate_score / analyze_single_client (pure) ----
    feature_results,    \* the feature results of one partner, in insertion order
    score_out,          \* what calculate_aggregate_score returned, or None
    mass_out,           \* what analyze_single_client derived, or None
    \* ---- _prepare_transactions ----
    norm_df,            \* transactions_df passed to _prepare_transactions
    norm_partner_id,    \* its partner_id argument
    norm_out,           \* the table it returned, or None
    \* ---- analyze_all_partners ----
    rank_dataset,       \* what load_dataset() yields: [df |-> table], None if it raises
    rank_columns,       \* the optional columns the loaded table has
    min_transactions,   \* argument
    top_n,              \* argument
    rank_out,           \* how the call ended, or None while it has not run
    \* ---- run_all_features and the direct calls of the computers ----
    feat_transactions_df, \* argument transactions_df
    feat_columns,       \* the optional columns that table has
    feat_accounts_df,   \* argument accounts_df: a DataFrame tag or NoneId
    feat_partner_id,    \* argument partner_id, or NoneId
    agg_out,            \* how run_all_features ended, or None
    feat_out,           \* what a directly called computer did, or None
    \* ---- one computer on concrete data ----
    call_args,          \* the data the computer is given
    call_out,           \* what it computed, or None while it has not run
    \* ---- threads running analyze_partner in one process ----
    sys_stdout,         \* the object sys.stdout refers to
    pc,                 \* where each thread is in analyze_partner
    old_stdout          \* the local old_stdout of each thread

scoreVars == <<feature_results, score_out, mass_out>>
normVars == <<norm_df, norm_partner_id, norm_out>>
rankVars == <<rank_dataset, rank_columns, min_transactions, top_n, rank_out>>
featVars ==
    <<feat_transactions_df, feat_columns, feat_accounts_df, feat_partner_id,
      agg_out, feat_out>>
threadVars == <<sys_stdout, pc, old_stdout>>
callVars == <<call_args, call_out, threadVars>>

\* None where a dictionary, list or table is expected
None == [none |-> TRUE]
\* None where a string is expected (no partner_id given)
NoneId == "None"
\* a missing cell of a table (NaN)
NaN == "NaN"

Min(a, b) == IF a <= b THEN a ELSE b
Max(a, b) == IF a >= b THEN a ELSE b

RECURSIVE SumSeq(_)
SumSeq(s) == IF s = <<>> THEN 0 ELSE Head(s) + SumSeq(Tail(s))

\* Python round(num/den, 2) for num >= 0, as hundredths: the quotient is
\* rounded to the nearest hundredth, an exact tie going to the even one.
round2(num, den) ==
    LET q == (100 * num) \div den
        r == (100 * num) % den
    IN  IF 2 * r < den THEN q
        ELSE IF 2 * r > den THEN q + 1
        ELSE IF q % 2 = 0 THEN q ELSE q + 1

(***************************************************************************)
(* Transaction table and feature_frequency._prepare_transactions.          *)
(* A table is a sequence of rows; a row is a record of its cells.          *)
(***************************************************************************)
\* np.where(df['Debit/Credit'] == 'debit', df[a], df[b]) on one row
where_debit(row, a, b) == IF row["Debit/Credit"] = "debit" THEN row[a] ELSE row[b]

\* Series.fillna(other) on one cell
fillna(cell, other) == IF cell = NaN THEN other ELSE cell

\* Mutant of prepare_row: the counterparty is taken from the same side as the
\* logical partner.
prepare_row_SameSide(row) ==
    [raw |-> row,
     logical_partner_id      |-> where_debit(row, "partner_id_outgoing", "partner_id_incoming"),
     logical_partner_country |-> where_debit(row, "country_name_outgoing", "country_name_incoming"),
     logical_partner_sector  |-> where_debit(row, "industry_gic2_code_outgoing", "industry_gic2_code_incoming"),
     counterparty_id         |-> where_debit(row, "partner_id_outgoing", "partner_id_incoming"),
     counterparty_country    |->
         fillna(where_debit(row, "country_name_incoming", "country_name_outgoing"),
                row["ext_counterparty_country"]),
     counterparty_sector     |-> where_debit(row, "industry_gic2_code_incoming", "industry_gic2_code_outgoing"),
     counterparty_account_id |-> where_debit(row, "account_id_incoming", "account_id_outgoing")]

\* The logical columns _prepare_transactions derives for one row; the raw cells
\* are kept (df is a copy of the table with columns added).
prepare_row(row) ==
    [raw |-> row,
     logical_partner_id      |-> where_debit(row, "partner_id_outgoing", "partner_id_incoming"),
     logical_partner_country |-> where_debit(row, "country_name_outgoing", "country_name_incoming"),
     logical_partner_sector  |-> where_debit(row, "industry_gic2_code_outgoing", "industry_gic2_code_incoming"),
     counterparty_id         |-> where_debit(row, "partner_id_incoming", "partner_id_outgoing"),
     counterparty_country    |->
         fillna(where_debit(row, "country_name_incoming", "country_name_outgoing"),
                row["ext_counterparty_country"]),
     counterparty_sector     |-> where_debit(row, "industry_gic2_code_incoming", "industry_gic2_code_outgoing"),
     counterparty_account_id |-> where_debit(row, "account_id_incoming", "account_id_outgoing")]

\* df[df['logical_partner_id'] == partner_id]: the rows kept, in table order
RECURSIVE FilterPartner(_, _)
FilterPartner(prepared, partner_id) ==
    IF prepared = <<>> THEN <<>>
    ELSE IF Head(prepared).logical_partner_id = partner_id
         THEN <<Head(prepared)>> \o FilterPartner(Tail(prepared), partner_id)
         ELSE FilterPartner(Tail(prepared), partner_id)

\* _prepare_transactions(transactions_df, partner_id): the derived columns, then
\* the filter when partner_id is truthy.
prepare_transactions(df, partner_id) ==
    LET prepared == [i \in DOMAIN df |-> prepare_row(df[i])]
    IN  IF partner_id # NoneId THEN FilterPartner(prepared, partner_id) ELSE prepared

(***************************************************************************)
(* SpecNorm: _prepare_transactions applied to every bounded table.         *)
(***************************************************************************)
\* Values of the Debit/Credit column, in several letter cases.
DirectionValues == {"debit", "credit", "Debit", "DEBIT"}

\* The cells one side of a transaction carries; the last is a side outside the
\* ledger, whose cells are all missing.
Sides ==
    {[partner_id |-> "p1", country_name |-> "Switzerland",
      industry_gic2_code |-> "10", account_id |-> "a1"],
     [partner_id |-> "p2", country_name |-> "Panama",
      industry_gic2_code |-> "20", account_id |-> "a2"],
     [partner_id |-> NaN, country_name |-> NaN,
      industry_gic2_code |-> NaN, account_id |-> NaN]}

MkRow(dc, incoming, outgoing, ext) ==
    [x \in {"Debit/Credit",
            "partner_id_incoming", "partner_id_outgoing",
            "country_name_incoming", "country_name_outgoing",
            "industry_gic2_code_incoming", "industry_gic2_code_outgoing",
            "account_id_incoming", "account_id_outgoing",
            "ext_counterparty_country"} |->
        CASE x = "Debit/Credit" -> dc
          [] x = "partner_id_incoming" -> incoming.partner_id
          [] x = "partner_id_outgoing" -> outgoing.partner_id
          [] x = "country_name_incoming" -> incoming.country_name
          [] x = "country_name_outgoing" -> outgoing.country_name
          [] x = "industry_gic2_code_incoming" -> incoming.industry_gic2_code
          [] x = "industry_gic2_code_outgoing" -> outgoing.industry_gic2_code
          [] x = "account_id_incoming" -> incoming.account_id
          [] x = "account_id_outgoing" -> outgoing.account_id
          [] x = "ext_counterparty_country" -> ext]

RawRows ==
    {MkRow(dc, i, o, e) : dc \in DirectionValues, i \in Sides, o \in Sides,
                          e \in {NaN, "Iran"}}

\* Longest table given to _prepare_transactions.
MaxNormRows == 2

RECURSIVE SeqsUpTo(_, _)
SeqsUpTo(S, n) ==
    IF n = 0 THEN {<<>>}
    ELSE LET shorter == SeqsUpTo(S, n - 1)
         IN  shorter \cup {Append(t, x) : t \in {u \in shorter : Len(u) = n - 1}, x \in S}

NormInputs ==
    /\ norm_df \in SeqsUpTo(RawRows, MaxNormRows)
    /\ norm_partner_id \in {NoneId, "p1"}
    /\ norm_out = None

IdleNorm ==
    /\ norm_df = <<>>
    /\ norm_partner_id = NoneId
    /\ norm_out = None

PrepareTransactions ==
    /\ norm_out = None
    /\ norm_out' = [df |-> prepare_transactions(norm_df, norm_partner_id)]
    /\ UNCHANGED <<norm_df, norm_partner_id>>


(***************************************************************************)
(* Feature results.                                                        *)
(***************************************************************************)
RiskLevels == {"HIGH", "MEDIUM", "LOW"}

\* The eight computers analyze_partner runs, in its order.
RankerFeatures ==
    <<"frequency", "burst_structuring", "atypical_amounts", "cross_border",
      "counterparties", "irregularity", "night_activity", "ephemeral_account">>

\* risk_score each computer assigns in the branch that sets risk_level, for a
\* non-empty transaction set.
TierScore(feature, level) ==
    CASE feature = "frequency" ->
           (IF level = "HIGH" THEN 85 ELSE IF level = "MEDIUM" THEN 55 ELSE 20)
      [] feature = "burst_structuring" ->
           (IF level = "HIGH" THEN 90 ELSE IF level = "MEDIUM" THEN 60 ELSE 15)
      [] feature = "atypical_amounts" ->
           (IF level = "HIGH" THEN 85 ELSE IF level = "MEDIUM" THEN 55 ELSE 20)
      [] feature = "cross_border" ->
           (IF level = "HIGH" THEN 85 ELSE IF level = "MEDIUM" THEN 55 ELSE 15)
      [] feature = "counterparties" ->
           (IF level = "HIGH" THEN 85 ELSE IF level = "MEDIUM" THEN 55 ELSE 20)
      [] feature = "irregularity" ->
           (IF level = "HIGH" THEN 85 ELSE IF level = "MEDIUM" THEN 50 ELSE 20)
      [] feature = "night_activity" ->
           (IF level = "HIGH" THEN 85 ELSE IF level = "MEDIUM" THEN 50 ELSE 15)
      [] feature = "ephemeral_account" ->
           (IF level = "HIGH" THEN 85 ELSE IF level = "MEDIUM" THEN 55 ELSE 15)

\* The dictionary a computer returns for a non-empty transaction set whose
\* metrics fall in the tier `level`.
TierResult(feature, partner_id, level) ==
    [feature_name |-> feature,
     partner_id   |-> IF partner_id # NoneId THEN partner_id ELSE "global",
     risk_level   |-> level,
     risk_score   |-> TierScore(feature, level),
     risk_reasons |-> <<level>>]

\* The dictionary a computer returns when len(df) == 0 after filtering.
EmptyResult(feature, partner_id) ==
    [feature_name |-> feature,
     partner_id   |-> IF partner_id # NoneId THEN partner_id ELSE "global",
     risk_level   |-> "LOW",
     risk_score   |-> 0,
     risk_reasons |-> <<"No transactions found">>]

\* feature_counterparties: a LOW verdict with a high-risk-country counterparty
\* becomes MEDIUM with risk_score = max(risk_score, 50).
EscalatedResult(partner_id) ==
    [TierResult("counterparties", partner_id, "LOW") EXCEPT
        !.risk_level = "MEDIUM",
        !.risk_score = Max(TierScore("counterparties", "LOW"), 50),
        !.risk_reasons = <<"LOW", "high-risk countries">>]

\* feature_ephemeral_account: no account has a computable lifetime.
NoLifetimeResult(partner_id) ==
    [EmptyResult("ephemeral_account", partner_id) EXCEPT
        !.risk_reasons = <<"No valid account lifetime data">>]

\* Every dictionary the computer `feature` can return.
PossibleResults(feature, partner_id) ==
    {TierResult(feature, partner_id, l) : l \in RiskLevels}
    \cup {EmptyResult(feature, partner_id)}
    \cup (IF feature = "counterparties" THEN {EscalatedResult(partner_id)} ELSE {})
    \cup (IF feature = "ephemeral_account" THEN {NoLifetimeResult(partner_id)} ELSE {})


(***************************************************************************)
(* The feature computers.  Amounts and dates are not part of the state:    *)
(* what they decide for a non-empty transaction set is the `verdict`.      *)
(***************************************************************************)
\* The accounts table as an argument: a DataFrame with or without rows
DataFrames == {"DataFrame", "EmptyDataFrame"}

\* Outcome of a call: the value returned, or the exception raised
Returned(value) == [raised |-> NoneId, value |-> value]
Raised(error) == [raised |-> error, value |-> None]

\* The branches a computer can take on a non-empty transaction set
Verdicts(feature) ==
    RiskLevels
    \cup (IF feature = "counterparties" THEN {"ESCALATED"} ELSE {})
    \cup (IF feature = "ephemeral_account" THEN {"NO_LIFETIME"} ELSE {})

ResultFor(feature, pid, verdict) ==
    CASE verdict = "ESCALATED" -> EscalatedResult(pid)
      [] verdict = "NO_LIFETIME" -> NoLifetimeResult(pid)
      [] OTHER -> TierResult(feature, pid, verdict)

\* The eight computers of the new schema (frequency ... ephemeral_account),
\* called as feature_x(transactions_df, partner_id, return_data).  Each runs its
\* own _prepare_transactions, all with the same logical_partner_id rule, then
\* takes the len(df) == 0 branch or assesses the risk.  A missing column makes
\* np.where raise KeyError; `if partner_id:` on a DataFrame raises ValueError.
feature_computer(feature, df, cols, pid, return_data, verdict) ==
    IF "Debit/Credit" \notin cols THEN Raised("KeyError")
    ELSE IF feature = "cross_border" /\ "partner_country_status_code" \notin cols
    THEN Raised("KeyError")
    ELSE IF pid \in DataFrames THEN Raised("ValueError")
    ELSE LET rows == prepare_transactions(df, pid)
         IN  IF Len(rows) = 0
             THEN Returned(IF return_data THEN EmptyResult(feature, pid) ELSE None)
             ELSE Returned(IF return_data THEN ResultFor(feature, pid, verdict)
                           ELSE None)

\* feature_abnormal_activity filters on the column 'partner_id' of the old
\* schema, prints its findings and returns nothing on every path.
feature_abnormal_activity(df, cols, accounts, pid) ==
    IF pid # NoneId /\ "partner_id" \notin cols THEN Raised("KeyError")
    ELSE Returned(None)

\* feature_account_age copies accounts_df, prints and returns nothing.
feature_account_age(accounts) ==
    IF accounts \notin DataFrames THEN Raised("AttributeError")
    ELSE Returned(None)

\* feature_account_multiplicity reads the columns 'account_id' and 'partner_id'
\* of the old schema (one flag here), prints and returns nothing.
feature_account_multiplicity(accounts, df, cols) ==
    IF "partner_id" \notin cols THEN Raised("KeyError")
    ELSE Returned(None)

(***************************************************************************)
(* analyze_top_suspects.calculate_aggregate_score                          *)
(***************************************************************************)
\* The loop over feature_results.items(): every result has a risk_score, so it
\* is appended to risk_scores; risk_levels[level] is incremented when level is
\* one of its three keys.
RECURSIVE ScoreLoop(_, _)
ScoreLoop(results, acc) ==
    IF results = <<>> THEN acc
    ELSE LET feature_data == Head(results)
             score == feature_data.risk_score
             level == feature_data.risk_level
             acc1  == [acc EXCEPT
                         !.risk_scores = Append(@, score),
                         !.feature_scores =
                             Append(@, [name  |-> feature_data.feature_name,
                                        score |-> score,
                                        level |-> level])]
             acc2  == IF level \in DOMAIN acc1.risk_levels
                      THEN [acc1 EXCEPT !.risk_levels[level] = @ + 1]
                      ELSE acc1
         IN  ScoreLoop(Tail(results), acc2)

\* Mutant of AggregateOf: the bonus is added once, not once per HIGH feature.
AggregateOf_FlatBonus(risk_scores, risk_levels) ==
    IF risk_scores # <<>>
    THEN LET n == Len(risk_scores)
             high_risk_bonus == IF risk_levels["HIGH"] > 0 THEN 5 ELSE 0
         IN  [num |-> Min(100 * n, SumSeq(risk_scores) + high_risk_bonus * n),
              den |-> n]
    ELSE [num |-> 0, den |-> 1]

\* aggregate_score = min(100, avg_risk_score + high_risk_bonus), kept exact as
\* num/den with den = len(risk_scores); 0 when risk_scores is empty.
AggregateOf(risk_scores, risk_levels) ==
    IF risk_scores # <<>>
    THEN LET n == Len(risk_scores)
             high_risk_bonus == risk_levels["HIGH"] * 5
         IN  [num |-> Min(100 * n, SumSeq(risk_scores) + high_risk_bonus * n),
              den |-> n]
    ELSE [num |-> 0, den |-> 1]

\* if aggregate_score >= 70 or HIGH >= 3 ... elif aggregate_score >= 40 or
\* HIGH >= 1 ... else LOW
OverallRisk(aggregate_score, risk_levels) ==
    IF aggregate_score.num >= 70 * aggregate_score.den \/ risk_levels["HIGH"] >= 3
    THEN "HIGH"
    ELSE IF aggregate_score.num >= 40 * aggregate_score.den
            \/ risk_levels["HIGH"] >= 1
         THEN "MEDIUM"
         ELSE "LOW"

calculate_aggregate_score(results) ==
    LET acc == ScoreLoop(results,
                   [risk_scores    |-> <<>>,
                    feature_scores |-> <<>>,
                    risk_levels    |-> [l \in RiskLevels |-> 0]])
        aggregate_score == AggregateOf(acc.risk_scores, acc.risk_levels)
    IN  [aggregate_score |-> aggregate_score,
         overall_risk    |-> OverallRisk(aggregate_score, acc.risk_levels),
         risk_levels     |-> acc.risk_levels,
         feature_scores  |-> acc.feature_scores]

(***************************************************************************)
(* mass_analysis.analyze_single_client: the statistics and the overall     *)
(* level it derives from the list of feature results.                      *)
(***************************************************************************)
CountLevel(results, level) ==
    Cardinality({i \in DOMAIN results : results[i].risk_level = level})

ScoresOf(results) == [i \in DOMAIN results |-> results[i].risk_score]

\* round(sum(risk_score) / len(results), 2) if results else 0, in hundredths
AverageRiskScore(results) ==
    IF results # <<>> THEN round2(SumSeq(ScoresOf(results)), Len(results)) ELSE 0

analyze_single_client_risk(results) ==
    LET high_risk_count   == CountLevel(results, "HIGH")
        medium_risk_count == CountLevel(results, "MEDIUM")
        low_risk_count    == CountLevel(results, "LOW")
        avg_risk_score    == AverageRiskScore(results)
        overall_risk ==
            IF high_risk_count >= 2 \/ avg_risk_score >= 70 * 100 THEN "HIGH"
            ELSE IF high_risk_count >= 1 \/ medium_risk_count >= 3
                    \/ avg_risk_score >= 50 * 100
                 THEN "MEDIUM"
                 ELSE "LOW"
    IN  [high_risk_features   |-> high_risk_count,
         medium_risk_features |-> medium_risk_count,
         low_risk_features    |-> low_risk_count,
         average_risk_score   |-> avg_risk_score,
         overall_risk_level   |-> overall_risk]

(***************************************************************************)
(* SpecScore: the two scoring functions applied to every bounded           *)
(* combination of feature results of one partner.                          *)
(***************************************************************************)
\* At most this many of the eight computers contribute a result.
MaxFeatures == 4

\* Sequences of results of the computers i.. of RankerFeatures, in that order,
\* with at most k of them present.
RECURSIVE ResultSeqs(_, _)
ResultSeqs(i, k) ==
    IF i > Len(RankerFeatures) THEN {<<>>}
    ELSE ResultSeqs(i + 1, k)
         \cup (IF k = 0 THEN {}
               ELSE {<<r>> \o s : r \in PossibleResults(RankerFeatures[i], "p1"),
                                  s \in ResultSeqs(i + 1, k - 1)})

ScoreInputs ==
    /\ feature_results \in ResultSeqs(1, MaxFeatures)
    /\ score_out = None
    /\ mass_out = None

IdleScore ==
    /\ feature_results = <<>>
    /\ score_out = None
    /\ mass_out = None

CalculateAggregateScore ==
    /\ score_out = None
    /\ score_out' = calculate_aggregate_score(feature_results)
    /\ UNCHANGED <<feature_results, mass_out>>

AnalyzeSingleClient ==
    /\ mass_out = None
    /\ mass_out' = analyze_single_client_risk(feature_results)
    /\ UNCHANGED <<feature_results, score_out>>

(***************************************************************************)
(* analyze_top_suspects.analyze_partner / analyze_all_partners             *)
(***************************************************************************)
\* Columns of the loaded table that some computers read and others do not.
FullColumns == {"Debit/Credit", "partner_country_status_code"}
ColumnSets == {FullColumns, {"Debit/Credit"}, {}}

\* The verdicts of the eight computers on a partner with transactions, as far
\* as amounts and dates (not part of the state) decide them.
VerdictProfiles ==
    {<<"LOW", "LOW", "LOW", "LOW", "LOW", "LOW", "LOW", "LOW">>,
     <<"HIGH", "HIGH", "HIGH", "LOW", "LOW", "LOW", "LOW", "LOW">>,
     <<"HIGH", "MEDIUM", "MEDIUM", "MEDIUM", "MEDIUM", "MEDIUM", "MEDIUM", "MEDIUM">>}

\* analyze_partner: the eight computers in order, each inside try/except; a
\* computer that raises, or returns nothing, contributes nothing.  The value is
\* the insertion-ordered dict as a sequence; <<>> stands for the None returned
\* for an empty dict.
analyze_partner(pid, df, cols, verdicts) ==
    LET Outcome(k) ==
            feature_computer(RankerFeatures[k], df, cols, pid, TRUE, verdicts[k])
        Stored(k) == Outcome(k).raised = NoneId /\ Outcome(k).value # None
        ran == SelectSeq([k \in DOMAIN RankerFeatures |-> k], Stored)
    IN  [j \in DOMAIN ran |-> Outcome(ran[j]).value]

\* Series.value_counts(): occurrences of a value in a column, NaN dropped
value_counts(df, column, value) ==
    Cardinality({i \in DOMAIN df : df[i][column] = value})

\* pd.concat([partner_incoming, partner_outgoing]).groupby(level=0).sum()
all_partners(df) ==
    LET ids == ({df[i]["partner_id_incoming"] : i \in DOMAIN df}
                \cup {df[i]["partner_id_outgoing"] : i \in DOMAIN df}) \ {NaN}
    IN  [p \in ids |-> value_counts(df, "partner_id_incoming", p)
                       + value_counts(df, "partner_id_outgoing", p)]

\* The orderings of the finite set S
Perms(S) ==
    {f \in [1..Cardinality(S) -> S] : \A i, j \in DOMAIN f : i # j => f[i] # f[j]}

\* Mutant of partners_to_analyze: the threshold is exclusive.
partners_to_analyze_Exclusive(df, min_tx) ==
    LET counts == all_partners(df)
        kept == {p \in DOMAIN counts : counts[p] > min_tx}
    IN  {o \in Perms(kept) :
            \A i \in 1..(Len(o) - 1) : counts[o[i]] >= counts[o[i + 1]]}

\* all_partners.sort_values(ascending=False) filtered by >= min_transactions:
\* the orders in which the loop can meet the partners (the sort is not stable,
\* equal counts come in any order).
partners_to_analyze(df, min_tx) ==
    LET counts == all_partners(df)
        kept == {p \in DOMAIN counts : counts[p] >= min_tx}
    IN  {o \in Perms(kept) :
            \A i \in 1..(Len(o) - 1) : counts[o[i]] >= counts[o[i + 1]]}

\* The dictionary appended to results for one partner.  The table has no
\* partner_name_* column, so get_partner_name yields "N/A".
RankEntry(pid, tx_count, results) ==
    LET s == calculate_aggregate_score(results)
    IN  [partner_id           |-> pid,
         partner_name         |-> "N/A",
         total_transactions   |-> tx_count,
         aggregate_risk_score |-> round2(s.aggregate_score.num, s.aggregate_score.den),
         overall_risk_level   |-> s.overall_risk,
         high_risk_features   |-> s.risk_levels["HIGH"],
         medium_risk_features |-> s.risk_levels["MEDIUM"],
         low_risk_features    |-> s.risk_levels["LOW"],
         feature_details      |-> s.feature_scores]

\* for idx, (partner_id, tx_count) in enumerate(partners_to_analyze.items())
RECURSIVE AnalyzeLoop(_, _, _, _)
AnalyzeLoop(order, df, cols, verdict_of) ==
    IF order = <<>> THEN <<>>
    ELSE LET pid == Head(order)
             feature_results_p == analyze_partner(pid, df, cols, verdict_of[pid])
             rest == AnalyzeLoop(Tail(order), df, cols, verdict_of)
         IN  IF feature_results_p = <<>> THEN rest
             ELSE <<RankEntry(pid, all_partners(df)[pid], feature_results_p)>>
                  \o rest

\* sort_values with ascending=True
sort_values_Ascending(results) ==
    {[i \in DOMAIN results |-> results[pi[i]]] : pi \in
        {q \in Perms(DOMAIN results) :
            \A i \in 1..(Len(results) - 1) :
                results[q[i]].aggregate_risk_score
                    <= results[q[i + 1]].aggregate_risk_score}}

\* results_df.sort_values('aggregate_risk_score', ascending=False): the default
\* kind is quicksort, which is not stable, so every descending arrangement of
\* the rows is a possible outcome.
sort_values(results) ==
    {[i \in DOMAIN results |-> results[pi[i]]] : pi \in
        {q \in Perms(DOMAIN results) :
            \A i \in 1..(Len(results) - 1) :
                results[q[i]].aggregate_risk_score
                    >= results[q[i + 1]].aggregate_risk_score}}

\* DataFrame.head(n) for n >= 0
head(rows, n) == SubSeq(rows, 1, Min(n, Len(rows)))

\* Rows between two different sides, one of which may be outside the ledger
RankRows ==
    {MkRow(dc, i, o, NaN) : dc \in {"debit", "credit"}, i \in Sides, o \in Sides}
    \ {MkRow(dc, i, i, NaN) : dc \in {"debit", "credit"}, i \in Sides}

MaxRankRows == 2

MinTransactionsValues == {1, 2}
TopNValues == {1, 2}

RankInputs ==
    /\ rank_dataset \in {[df |-> t] : t \in SeqsUpTo(RankRows, MaxRankRows)} \cup {None}
    /\ rank_columns \in ColumnSets
    /\ min_transactions \in MinTransactionsValues
    /\ top_n \in TopNValues
    /\ rank_out = None

IdleRank ==
    /\ rank_dataset = None
    /\ rank_columns = FullColumns
    /\ min_transactions = 5
    /\ top_n = 100
    /\ rank_out = None

\* load_dataset() raises: the error is printed and an empty DataFrame returned.
LoadFails ==
    /\ rank_out = None
    /\ rank_dataset = None
    /\ rank_out' = [kind |-> "returned", partners_to_analyze |-> <<>>,
                    results |-> <<>>, top_suspects |-> <<>>]
    /\ UNCHANGED <<rank_dataset, rank_columns, min_transactions, top_n>>

\* The call on a loaded table.  With no row in results the DataFrame has no
\* aggregate_risk_score column and sort_values raises KeyError.
AnalyzeAllPartners ==
    /\ rank_out = None
    /\ rank_dataset # None
    /\ \E order \in partners_to_analyze(rank_dataset.df, min_transactions),
          verdict_of \in [DOMAIN all_partners(rank_dataset.df) -> VerdictProfiles] :
          \E results \in {AnalyzeLoop(order, rank_dataset.df, rank_columns,
                                       verdict_of)} :
              IF results = <<>>
              THEN rank_out' = [kind |-> "KeyError", partners_to_analyze |-> order,
                                results |-> results, top_suspects |-> <<>>]
              ELSE \E results_df \in sort_values(results) :
                      rank_out' = [kind |-> "returned",
                                   partners_to_analyze |-> order,
                                   results |-> results,
                                   top_suspects |-> head(results_df, top_n)]
    /\ UNCHANGED <<rank_dataset, rank_columns, min_transactions, top_n>>

(***************************************************************************)
(* run_all_features                                                        *)
(***************************************************************************)
\* The computers in the order run_all_features calls them
AggregatorFeatures ==
    RankerFeatures \o <<"abnormal_activity", "account_age", "account_multiplicity">>

\* The calls made: the last two only `if not partner_id`
CallsFor(pid) ==
    IF pid # NoneId THEN SubSeq(AggregatorFeatures, 1, 9) ELSE AggregatorFeatures

\* Position of a computer in RankerFeatures (where its verdict is kept)
VerdictIndex(feature) == CHOOSE k \in DOMAIN RankerFeatures : RankerFeatures[k] = feature

\* One call as run_all_features writes it.  The seven transaction computers
\* get (transactions_df, partner_id); feature_ephemeral_account is called as
\* (transactions_df, accounts_df, partner_id), which binds accounts_df to its
\* parameter partner_id and partner_id to its parameter return_data.
AggCall(feature, df, cols, accounts, pid, verdicts) ==
    CASE feature = "ephemeral_account" ->
            feature_computer(feature, df, cols, accounts, pid # NoneId,
                             verdicts[VerdictIndex(feature)])
      [] feature = "abnormal_activity" -> feature_abnormal_activity(df, cols, accounts, pid)
      [] feature = "account_age" -> feature_account_age(accounts)
      [] feature = "account_multiplicity" -> feature_account_multiplicity(accounts, df, cols)
      [] OTHER -> feature_computer(feature, df, cols, pid, TRUE,
                                   verdicts[VerdictIndex(feature)])

\* The calls in sequence, none inside a try: the first exception ends the
\* function; `if result:` appends what is not None.  partner_name is None, the
\* value the key already has in each result.
RECURSIVE CollectResults(_, _, _, _, _, _)
CollectResults(calls, df, cols, accounts, pid, verdicts) ==
    IF calls = <<>>
    THEN [raised |-> NoneId, raised_in |-> NoneId, results |-> <<>>]
    ELSE LET out == AggCall(Head(calls), df, cols, accounts, pid, verdicts)
         IN  IF out.raised # NoneId
             THEN [raised |-> out.raised, raised_in |-> Head(calls), results |-> <<>>]
             ELSE LET rest == CollectResults(Tail(calls), df, cols, accounts, pid,
                                             verdicts)
                  IN  IF rest.raised # NoneId THEN rest
                      ELSE [rest EXCEPT !.results =
                               (IF out.value # None THEN <<out.value>> ELSE <<>>) \o @]

\* Mutant of summary: the average is truncated to two decimals, not rounded.
summary_Truncated(results) ==
    [high_risk_features   |-> CountLevel(results, "HIGH"),
     medium_risk_features |-> CountLevel(results, "MEDIUM"),
     low_risk_features    |-> CountLevel(results, "LOW"),
     average_risk_score   |->
         IF results # <<>>
         THEN (100 * SumSeq(ScoresOf(results))) \div Len(results)
         ELSE 0]

\* The "summary" of the report; average_risk_score in hundredths:
\* round(sum(risk_score) / len(results), 2) if results else 0
summary(results) ==
    [high_risk_features   |-> CountLevel(results, "HIGH"),
     medium_risk_features |-> CountLevel(results, "MEDIUM"),
     low_risk_features    |-> CountLevel(results, "LOW"),
     average_risk_score   |->
         IF results # <<>>
         THEN round2(SumSeq(ScoresOf(results)), Len(results))
         ELSE 0]

\* analysis_report, without its timestamp
analysis_report(results, pid) ==
    [analysis_metadata |->
        [partner_id   |-> IF pid # NoneId THEN pid ELSE "global",
         partner_name |-> NoneId,
         total_features_analyzed |-> Len(results)],
     features |-> results,
     summary  |-> summary(results)]

\* Every assignment of a verdict to the computers i.. of RankerFeatures
RECURSIVE VerdictSeqs(_)
VerdictSeqs(i) ==
    IF i > Len(RankerFeatures) THEN {<<>>}
    ELSE {<<v>> \o s : v \in Verdicts(RankerFeatures[i]), s \in VerdictSeqs(i + 1)}

\* Rows between two different partners of the ledger
FeatRows ==
    {MkRow(dc, i, o, NaN) : dc \in {"debit", "credit"},
                             i \in {x \in Sides : x.partner_id # NaN},
                             o \in {x \in Sides : x.partner_id # NaN}}
    \ {MkRow(dc, i, i, NaN) : dc \in {"debit", "credit"}, i \in Sides}

MaxFeatRows == 1

FeatColumnSets ==
    SUBSET {"Debit/Credit", "partner_country_status_code", "partner_id"}

FeatInputs ==
    /\ feat_transactions_df \in SeqsUpTo(FeatRows, MaxFeatRows)
    /\ feat_columns \in FeatColumnSets
    /\ feat_accounts_df \in DataFrames \cup {NoneId}
    /\ feat_partner_id \in {NoneId, "p1"}
    /\ agg_out = None
    /\ feat_out = None

IdleFeat ==
    /\ feat_transactions_df = <<>>
    /\ feat_columns = {}
    /\ feat_accounts_df = NoneId
    /\ feat_partner_id = NoneId
    /\ agg_out = None
    /\ feat_out = None

\* run_all_features(transactions_df, accounts_df, partner_id) with the default
\* save_json=True: the report is written to json_files/ when partner_id is given.
RunAllFeatures ==
    /\ agg_out = None
    /\ feat_out = None
    /\ LET Run(verdicts) ==
               CollectResults(CallsFor(feat_partner_id), feat_transactions_df,
                              feat_columns, feat_accounts_df, feat_partner_id,
                              verdicts)
           \* whether and where a call raises does not depend on the verdicts
           probe == Run([k \in DOMAIN RankerFeatures |-> "LOW"])
       IN  IF probe.raised # NoneId
           THEN agg_out' = [kind |-> probe.raised, raised_in |-> probe.raised_in,
                            report |-> None, saved |-> FALSE]
           ELSE \E verdicts \in VerdictSeqs(1) :
                   agg_out' = [kind |-> "returned", raised_in |-> NoneId,
                               report |-> analysis_report(Run(verdicts).results,
                                                          feat_partner_id),
                               saved |-> feat_partner_id # NoneId]
    /\ UNCHANGED <<feat_transactions_df, feat_columns, feat_accounts_df,
                   feat_partner_id, feat_out>>

\* One computer called directly, with the arguments its signature names.
CallFeature ==
    /\ agg_out = None
    /\ feat_out = None
    /\ \E feature \in {AggregatorFeatures[k] : k \in DOMAIN AggregatorFeatures} :
          \/ /\ feature \in {RankerFeatures[k] : k \in DOMAIN RankerFeatures}
             /\ \E verdict \in Verdicts(feature) :
                   feat_out' =
                     [feature |-> feature,
                      out |-> feature_computer(feature, feat_transactions_df,
                                               feat_columns, feat_partner_id, TRUE,
                                               verdict)]
          \/ /\ feature = "abnormal_activity"
             /\ feat_out' =
                  [feature |-> feature,
                   out |-> feature_abnormal_activity(feat_transactions_df, feat_columns,
                                                     feat_accounts_df, feat_partner_id)]
          \/ /\ feature = "account_age"
             /\ feat_out' = [feature |-> feature,
                             out |-> feature_account_age(feat_accounts_df)]
          \/ /\ feature = "account_multiplicity"
             /\ feat_out' =
                  [feature |-> feature,
                   out |-> feature_account_multiplicity(feat_accounts_df,
                                                        feat_transactions_df,
                                                        feat_columns)]
    /\ UNCHANGED <<feat_transactions_df, feat_columns, feat_accounts_df,
                   feat_partner_id, agg_out>>

(***************************************************************************)
(* Specifications: one per entry point, the state of the others idle.      *)
(***************************************************************************)
vars == <<scoreVars, normVars, rankVars, featVars, callVars>>

\* The stream sys.stdout refers to when the process starts (no thread made it)
console == [buffer_of |-> 0]

\* No thread is running: sys.stdout is the console
IdleThreads == sys_stdout = console /\ pc = <<>> /\ old_stdout = <<>>

IdleCall == call_args = None /\ call_out = None /\ IdleThreads

InitScore == ScoreInputs /\ IdleNorm /\ IdleRank /\ IdleFeat /\ IdleCall
NextScore ==
    \/ CalculateAggregateScore /\ UNCHANGED <<normVars, rankVars, featVars, callVars>>
    \/ AnalyzeSingleClient /\ UNCHANGED <<normVars, rankVars, featVars, callVars>>
SpecScore == InitScore /\ [][NextScore]_vars

InitNorm == NormInputs /\ IdleScore /\ IdleRank /\ IdleFeat /\ IdleCall
NextNorm ==
    PrepareTransactions /\ UNCHANGED <<scoreVars, rankVars, featVars, callVars>>
SpecNorm == InitNorm /\ [][NextNorm]_vars

InitRank == RankInputs /\ IdleScore /\ IdleNorm /\ IdleFeat /\ IdleCall
NextRank ==
    \/ LoadFails /\ UNCHANGED <<scoreVars, normVars, featVars, callVars>>
    \/ AnalyzeAllPartners /\ UNCHANGED <<scoreVars, normVars, featVars, callVars>>
SpecRank == InitRank /\ [][NextRank]_vars

InitFeat == FeatInputs /\ IdleScore /\ IdleNorm /\ IdleRank /\ IdleCall
NextFeat ==
    \/ RunAllFeatures /\ UNCHANGED <<scoreVars, normVars, rankVars, callVars>>
    \/ CallFeature /\ UNCHANGED <<scoreVars, normVars, rankVars, callVars>>
SpecFeat == InitFeat /\ [][NextFeat]_vars

\* Everything but the single-computer call is idle
OthersIdle == IdleScore /\ IdleNorm /\ IdleRank /\ IdleFeat /\ IdleThreads
othersVars == <<scoreVars, normVars, rankVars, featVars, threadVars>>


(***************************************************************************)
(* Claims on the scoring functions (SpecScore).                            *)
(***************************************************************************)
NumHigh(results) == CountLevel(results, "HIGH")

\* C1: for a non-empty set of feature results calculate_aggregate_score
\* returns min(100, mean(risk_score) + 5 * #HIGH); for an empty set, 0.
C1_AggregateScore ==
    score_out # None =>
        LET n == Len(feature_results)
            a == score_out.aggregate_score
        IN  IF n = 0 THEN a.num = 0
            ELSE a.num * n =
                   a.den * Min(100 * n,
                               SumSeq(ScoresOf(feature_results))
                                 + 5 * NumHigh(feature_results) * n)

\* C1 witness: a score was computed for several features, two of them HIGH,
\* below the cap of 100.
C1_Witness ==
    /\ score_out # None
    /\ Len(feature_results) >= 3
    /\ NumHigh(feature_results) = 2
    /\ score_out.aggregate_score.num < 100 * score_out.aggregate_score.den

\* The overall-risk rule as the specification words it, on the exact aggregate
\* score num/den.
RuleLevel(results) ==
    LET n   == Len(results)
        num == IF n = 0 THEN 0
               ELSE Min(100 * n, SumSeq(ScoresOf(results)) + 5 * NumHigh(results) * n)
        den == IF n = 0 THEN 1 ELSE n
    IN  IF num >= 70 * den \/ NumHigh(results) >= 3 THEN "HIGH"
        ELSE IF num >= 40 * den \/ NumHigh(results) >= 1 THEN "MEDIUM"
        ELSE "LOW"

\* C2: the overall risk of a partner is HIGH if aggregate >= 70 or >= 3 HIGH
\* features, else MEDIUM if aggregate >= 40 or >= 1 HIGH feature, else LOW, and
\* this is the one rule of population analysis: both population analysers
\* (calculate_aggregate_score and analyze_single_client) classify every
\* combination of feature results by it.
C2_SingleOverallRule ==
    /\ score_out # None => score_out.overall_risk = RuleLevel(feature_results)
    /\ mass_out # None => mass_out.overall_risk_level = RuleLevel(feature_results)


(***************************************************************************)
(* Claims on the normalizer (SpecNorm).                                    *)
(***************************************************************************)
\* The cells of the side `side` ("incoming" or "outgoing") of a raw row; the
\* country of a side outside the ledger is the external-counterparty country.
SidePartner(raw, side) == IF side = "incoming" THEN raw["partner_id_incoming"]
                          ELSE raw["partner_id_outgoing"]
SideCountry(raw, side) == IF side = "incoming" THEN raw["country_name_incoming"]
                          ELSE raw["country_name_outgoing"]
SideSector(raw, side)  == IF side = "incoming" THEN raw["industry_gic2_code_incoming"]
                          ELSE raw["industry_gic2_code_outgoing"]
SideAccount(raw, side) == IF side = "incoming" THEN raw["account_id_incoming"]
                          ELSE raw["account_id_outgoing"]

\* The row r has `partner` as its logical partner side and `counter` as its
\* counterparty side.
Attributed(r, partner, counter) ==
    /\ r.logical_partner_id = SidePartner(r.raw, partner)
    /\ r.logical_partner_country = SideCountry(r.raw, partner)
    /\ r.logical_partner_sector = SideSector(r.raw, partner)
    /\ r.counterparty_id = SidePartner(r.raw, counter)
    /\ r.counterparty_sector = SideSector(r.raw, counter)
    /\ r.counterparty_account_id = SideAccount(r.raw, counter)
    /\ r.counterparty_country =
          IF SideCountry(r.raw, counter) # NaN THEN SideCountry(r.raw, counter)
          ELSE r.raw["ext_counterparty_country"]

\* C9: on every row the logical partner is the outgoing side and the
\* counterparty the incoming side when the direction is debit, the reverse when
\* it is credit; on every row one side is the partner and the other side the
\* counterparty.
C9_DirectionRule ==
    norm_out # None =>
        \A i \in DOMAIN norm_out.df :
            LET r == norm_out.df[i]
            IN  /\ r.raw["Debit/Credit"] = "debit" => Attributed(r, "outgoing", "incoming")
                /\ r.raw["Debit/Credit"] = "credit" => Attributed(r, "incoming", "outgoing")
                /\ \/ Attributed(r, "outgoing", "incoming")
                   \/ Attributed(r, "incoming", "outgoing")

\* C9 witness: a normalized table holding a debit row and a credit row between
\* two different ledger partners.
C9_Witness ==
    /\ norm_out # None
    /\ \E i, j \in DOMAIN norm_out.df :
          /\ norm_out.df[i].raw["Debit/Credit"] = "debit"
          /\ norm_out.df[j].raw["Debit/Credit"] = "credit"
          /\ norm_out.df[i].logical_partner_id = "p1"
          /\ norm_out.df[i].counterparty_id = "p2"
          /\ norm_out.df[j].logical_partner_id = "p1"
          /\ norm_out.df[j].counterparty_id = "p2"

\* str.lower() on the values of the Debit/Credit column
lower(dc) == IF dc \in {"debit", "Debit", "DEBIT"} THEN "debit" ELSE "credit"

\* C10: the direction comparison is case-insensitive: a row whose Debit/Credit
\* value is debit in any letter case is attributed to the outgoing side.
C10_CaseInsensitiveDirection ==
    norm_out # None =>
        \A i \in DOMAIN norm_out.df :
            LET r == norm_out.df[i]
            IN  lower(r.raw["Debit/Credit"]) = "debit" =>
                    Attributed(r, "outgoing", "incoming")

(***************************************************************************)
(* Claims on the ranker (SpecRank).                                        *)
(***************************************************************************)
\* Position of the entry of partner `p` in the list `entries`
PositionOf(entries, p) == CHOOSE i \in DOMAIN entries : entries[i].partner_id = p

\* C3: the returned list is in descending order of aggregate_risk_score, and
\* entries with equal scores keep the order in which the loop produced them.
C3_SortedDescendingStable ==
    (rank_out # None /\ rank_out.kind = "returned") =>
        LET top == rank_out.top_suspects
        IN  \A i, j \in DOMAIN top :
                i < j =>
                    /\ top[i].aggregate_risk_score >= top[j].aggregate_risk_score
                    /\ top[i].aggregate_risk_score = top[j].aggregate_risk_score
                         => PositionOf(rank_out.results, top[i].partner_id)
                              < PositionOf(rank_out.results, top[j].partner_id)

\* Partner ids whose occurrences in the two partner-id columns number at least
\* min_transactions
Qualifying ==
    {p \in {"p1", "p2"} :
        Cardinality({i \in DOMAIN rank_dataset.df :
                        rank_dataset.df[i]["partner_id_incoming"] = p})
        + Cardinality({i \in DOMAIN rank_dataset.df :
                        rank_dataset.df[i]["partner_id_outgoing"] = p})
        >= min_transactions}

ReportReturned == agg_out # None /\ agg_out.kind = "returned"

\* 100 * sum(risk_score) of the features of the returned report
HundredthsTotal == 100 * SumSeq(ScoresOf(agg_out.report.features))

\* C5 (as stated): average_risk_score equals the arithmetic mean of risk_score
\* over features (0 when empty) and the three level counts add up to
\* len(features).
C5_AverageIsMean ==
    ReportReturned =>
        LET n == Len(agg_out.report.features)
            sm == agg_out.report.summary
        IN  /\ IF n = 0 THEN sm.average_risk_score = 0
               ELSE sm.average_risk_score * n = HundredthsTotal
            /\ sm.high_risk_features + sm.medium_risk_features
                 + sm.low_risk_features = n

\* C5 (amended): average_risk_score equals the arithmetic mean rounded to two
\* decimals, a tie going to the even hundredth (0 when empty), and the three
\* level counts add up to len(features).
C5_AverageIsRoundedMean ==
    ReportReturned =>
        LET n == Len(agg_out.report.features)
            sm == agg_out.report.summary
            diff == sm.average_risk_score * n - HundredthsTotal
            dist == IF diff >= 0 THEN diff ELSE -diff
        IN  /\ IF n = 0 THEN sm.average_risk_score = 0
               ELSE /\ 2 * dist <= n
                    /\ 2 * dist = n => sm.average_risk_score % 2 = 0
            /\ sm.high_risk_features + sm.medium_risk_features
                 + sm.low_risk_features = n

\* C5 witness: a returned report of eight features, of all three levels, whose
\* mean has more than two decimals.
C5_Witness ==
    /\ ReportReturned
    /\ Len(agg_out.report.features) = 8
    /\ HundredthsTotal % 8 # 0
    /\ agg_out.report.summary.high_risk_features > 0
    /\ agg_out.report.summary.medium_risk_features > 0
    /\ agg_out.report.summary.low_risk_features > 0

\* C6: an exception raised inside a computer does not abort run_all_features:
\* every call ends with a report returned, no exception leaves the function.
C6_FailureIsolated ==
    agg_out # None =>
        /\ agg_out.kind = "returned"
        /\ agg_out.raised_in = NoneId

\* C7: the features of a returned report are the results, for the partner
\* analysed, of frequency ... abnormal_activity in that order, followed by
\* account_age and account_multiplicity when no partner id is given, and
\* total_features_analyzed is the length of the list.
C7_FeaturesInInvocationOrder ==
    ReportReturned =>
        LET features == agg_out.report.features
            expected == IF feat_partner_id # NoneId
                        THEN <<"frequency", "burst_structuring", "atypical_amounts",
                               "cross_border", "counterparties", "irregularity",
                               "night_activity", "ephemeral_account",
                               "abnormal_activity">>
                        ELSE <<"frequency", "burst_structuring", "atypical_amounts",
                               "cross_border", "counterparties", "irregularity",
                               "night_activity", "ephemeral_account",
                               "abnormal_activity", "account_age",
                               "account_multiplicity">>
        IN  /\ [i \in DOMAIN features |-> features[i].feature_name] = expected
            /\ \A i \in DOMAIN features :
                   features[i].partner_id = agg_out.report.analysis_metadata.partner_id
            /\ agg_out.report.analysis_metadata.total_features_analyzed = Len(features)

\* The directly called computer had nothing to work on: no transaction of the
\* partner (no transaction at all where the computer takes no partner), or an
\* accounts table without rows for account_age; the table has every column.
CalledOnEmptySet ==
    /\ feat_out # None
    /\ feat_columns = {"Debit/Credit", "partner_country_status_code", "partner_id"}
    /\ IF feat_out.feature = "account_age"
       THEN feat_accounts_df = "EmptyDataFrame"
       ELSE IF feat_out.feature \in {"abnormal_activity", "account_multiplicity"}
       THEN feat_transactions_df = <<>> /\ feat_accounts_df = "EmptyDataFrame"
       ELSE Len(prepare_transactions(feat_transactions_df, feat_partner_id)) = 0

\* C8: each of the eleven computers, called on an empty set, raises nothing and
\* returns a result with risk_level LOW, risk_score 0 and non-empty
\* risk_reasons.
C8_EmptyInputLaw ==
    CalledOnEmptySet =>
        /\ feat_out.out.raised = NoneId
        /\ feat_out.out.value # None
        /\ feat_out.out.value.risk_level = "LOW"
        /\ feat_out.out.value.risk_score = 0
        /\ feat_out.out.value.risk_reasons # <<>>

(***************************************************************************)
(* The rows each per-partner computer analyses when run_all_features calls *)
(* it (SpecRows).                                                          *)
(***************************************************************************)
\* _prepare_transactions of a computer of the new schema, as row numbers: the
\* same np.where on Debit/Credit and the same filter in all eight modules.
\* pid_arg is what the call binds to the parameter partner_id.
rows_prepared(df, pid_arg) ==
    IF pid_arg \in DataFrames THEN [raised |-> "ValueError", rows |-> {}]
    ELSE [raised |-> NoneId,
          rows |-> IF pid_arg # NoneId
                   THEN {i \in DOMAIN df :
                           where_debit(df[i], "partner_id_outgoing",
                                       "partner_id_incoming") = pid_arg}
                   ELSE DOMAIN df]

\* feature_abnormal_activity: df[df['partner_id'] == partner_id] on the column
\* 'partner_id' of the old schema; KeyError when the table has no such column.
rows_abnormal_activity(df, partner_id_column, pid) ==
    IF pid = NoneId THEN [raised |-> NoneId, rows |-> DOMAIN df]
    ELSE IF partner_id_column = None THEN [raised |-> "KeyError", rows |-> {}]
    ELSE [raised |-> NoneId,
          rows |-> {i \in DOMAIN df : partner_id_column.cells[i] = pid}]

\* The nine per-partner computers, in the order of run_all_features
PerPartnerFeatures == SubSeq(AggregatorFeatures, 1, 9)

\* The rows behind each of the nine calls of run_all_features:
\* feature_x(transactions_df, partner_id) for the first seven,
\* feature_ephemeral_account(transactions_df, accounts_df, partner_id) and
\* feature_abnormal_activity(transactions_df, accounts_df, partner_id).
aggregator_rows(args) ==
    [k \in DOMAIN PerPartnerFeatures |->
        CASE PerPartnerFeatures[k] = "ephemeral_account" ->
                rows_prepared(args.df, args.accounts_df)
          [] PerPartnerFeatures[k] = "abnormal_activity" ->
                rows_abnormal_activity(args.df, args.partner_id_column,
                                       args.partner_id)
          [] OTHER -> rows_prepared(args.df, args.partner_id)]

MaxCallRows == 2

\* The cells of a column 'partner_id' for a table of n rows, or no such column
PartnerIdColumns(n) == {[cells |-> c] : c \in [1..n -> {"p1", "p2"}]} \cup {None}

RowsInputs ==
    /\ call_args \in
         UNION {{[df |-> t, partner_id_column |-> c, accounts_df |-> a,
                  partner_id |-> p] :
                    c \in PartnerIdColumns(Len(t)),
                    a \in DataFrames \cup {NoneId},
                    p \in {"p1", "p2"}} : t \in SeqsUpTo(FeatRows, MaxCallRows)}
    /\ call_out = None

AggregatorRows ==
    /\ call_out = None
    /\ call_out' = [rows_analysed |-> aggregator_rows(call_args)]
    /\ UNCHANGED call_args

InitRows == RowsInputs /\ OthersIdle
NextRows == AggregatorRows /\ UNCHANGED othersVars
SpecRows == InitRows /\ [][NextRows]_vars

\* C11: each of the nine per-partner computers the aggregator runs analyses
\* exactly the rows whose logical_partner_id (outgoing partner on a debit row,
\* incoming partner otherwise) equals the partner id.
C11_SameRowSet ==
    call_out # None =>
        \A k \in DOMAIN call_out.rows_analysed :
            /\ call_out.rows_analysed[k].raised = NoneId
            /\ call_out.rows_analysed[k].rows =
                 {i \in DOMAIN call_args.df :
                    (IF call_args.df[i]["Debit/Credit"] = "debit"
                     THEN call_args.df[i]["partner_id_outgoing"]
                     ELSE call_args.df[i]["partner_id_incoming"])
                    = call_args.partner_id}

(***************************************************************************)
(* Missing columns (SpecSchema): _prepare_transactions of feature_frequency *)
(* and resolve_columns of sent_amounts_by_country on a table that has only *)
(* some of the columns.                                                    *)
(***************************************************************************)
\* The columns _prepare_transactions subscripts, in the order it does so.
\* 'Date' is converted only `if 'Date' in df.columns`; 'Amount' is not touched.
SubscriptOrder ==
    <<"Debit/Credit", "partner_id_outgoing", "partner_id_incoming",
      "country_name_outgoing", "country_name_incoming",
      "industry_gic2_code_outgoing", "industry_gic2_code_incoming",
      "account_id_incoming", "account_id_outgoing">>

\* df[col] on a missing column raises KeyError(col): the first missing column
\* of the order ends the call, its name is the whole message.
prepare_on_columns(cols) ==
    LET missing == {k \in DOMAIN SubscriptOrder : SubscriptOrder[k] \notin cols}
    IN  IF missing = {}
        THEN [kind |-> "_prepare_transactions", raised |-> NoneId, names |-> {}]
        ELSE LET first == CHOOSE k \in missing : \A j \in missing : k <= j
             IN  [kind |-> "_prepare_transactions", raised |-> "KeyError",
                  names |-> {SubscriptOrder[first]}]

\* candidate_map of resolve_columns, the logical fields it requires
candidate_map ==
    [account_id |-> {"Account ID", "account_id", "account"},
     date       |-> {"Date", "date", "transaction_date"},
     amount     |-> {"Amount", "amount", "transaction_amount"},
     direction  |-> {"Debit/Credit", "debit_credit", "direction"}]

\* resolve_columns: KeyError listing every required logical field none of whose
\* candidate columns is present.
resolve_columns(cols) ==
    LET missing_required ==
            {key \in DOMAIN candidate_map : candidate_map[key] \cap cols = {}}
    IN  IF missing_required # {}
        THEN [kind |-> "resolve_columns", raised |-> "KeyError",
              names |-> missing_required]
        ELSE [kind |-> "resolve_columns", raised |-> NoneId, names |-> {}]

\* Column names a table may carry
SchemaColumns ==
    {SubscriptOrder[k] : k \in DOMAIN SubscriptOrder}
    \cup {"Date", "Amount", "Account ID", "date"}

SchemaInputs ==
    /\ call_args \in {[columns |-> c] : c \in SUBSET SchemaColumns}
    /\ call_out = None

PrepareOnColumns ==
    /\ call_out = None
    /\ call_out' = prepare_on_columns(call_args.columns)
    /\ UNCHANGED call_args

ResolveColumns ==
    /\ call_out = None
    /\ call_out' = resolve_columns(call_args.columns)
    /\ UNCHANGED call_args

InitSchema == SchemaInputs /\ OthersIdle
NextSchema ==
    \/ PrepareOnColumns /\ UNCHANGED othersVars
    \/ ResolveColumns /\ UNCHANGED othersVars
SpecSchema == InitSchema /\ [][NextSchema]_vars

\* C12: when the direction, amount, timestamp or one of the two partner id
\* columns is absent, the normalizer fails with an error that names all the
\* missing required columns, and never runs to the end.
C12_SchemaErrorNamesMissing ==
    (call_out # None /\ call_out.kind = "_prepare_transactions") =>
        LET missing == {"Debit/Credit", "Amount", "Date", "partner_id_incoming",
                        "partner_id_outgoing"} \ call_args.columns
        IN  missing # {} =>
                /\ call_out.raised # NoneId
                /\ call_out.names = missing


(***************************************************************************)
(* SpecTiers: the risk assessment block of each computer, run on the       *)
(* metrics of two transaction sets.  A percentage count / total * 100 is   *)
(* compared by cross-multiplication, which agrees with the floating-point  *)
(* comparison for every threshold used here.                               *)
(***************************************************************************)
PctAbove(count, total, threshold) == count * 100 > threshold * total

Tier(level, score) == [risk_level |-> level, risk_score |-> score]

\* feature_frequency's tiers with the thresholds 3 and 10 included
frequency_risk_Inclusive(m) ==
    IF m.total_tx >= 10 * m.date_range THEN Tier("HIGH", 85)
    ELSE IF m.total_tx >= 3 * m.date_range THEN Tier("MEDIUM", 55)
    ELSE Tier("LOW", 20)

\* feature_frequency: tx_per_day = total_tx / date_range
frequency_risk(m) ==
    IF m.total_tx > 10 * m.date_range THEN Tier("HIGH", 85)
    ELSE IF m.total_tx > 3 * m.date_range THEN Tier("MEDIUM", 55)
    ELSE Tier("LOW", 20)

\* feature_burst_structuring's tiers with a single burst hour raising MEDIUM
burst_structuring_risk_AnyBurst(m) ==
    IF m.burst_hours > 10 \/ m.structuring_count > 20 THEN Tier("HIGH", 90)
    ELSE IF m.burst_hours > 0 \/ m.structuring_count > 5 THEN Tier("MEDIUM", 60)
    ELSE Tier("LOW", 15)

burst_structuring_risk(m) ==
    IF m.burst_hours > 10 \/ m.structuring_count > 20 THEN Tier("HIGH", 90)
    ELSE IF m.burst_hours > 3 \/ m.structuring_count > 5 THEN Tier("MEDIUM", 60)
    ELSE Tier("LOW", 15)

atypical_amounts_risk(m) ==
    IF PctAbove(m.outlier_count, m.total_tx, 10) \/ m.extreme_outliers > 5
    THEN Tier("HIGH", 85)
    ELSE IF PctAbove(m.outlier_count, m.total_tx, 5) \/ m.extreme_outliers > 2
    THEN Tier("MEDIUM", 55)
    ELSE Tier("LOW", 20)

cross_border_risk(m) ==
    IF PctAbove(m.cross_border_count, m.total_tx, 50) \/ m.high_risk_count > 5
    THEN Tier("HIGH", 85)
    ELSE IF PctAbove(m.cross_border_count, m.total_tx, 20) \/ m.high_risk_count > 0
    THEN Tier("MEDIUM", 55)
    ELSE Tier("LOW", 15)

\* feature_counterparties without the high-risk-country escalation
counterparties_risk_NoEscalation(m) ==
    IF m.unique_counterparties < 3 \/ PctAbove(m.top_count, m.total_tx, 80)
    THEN Tier("HIGH", 85)
    ELSE IF m.unique_counterparties < 10 \/ PctAbove(m.top_count, m.total_tx, 50)
    THEN Tier("MEDIUM", 55)
    ELSE Tier("LOW", 20)

\* The escalation of feature_counterparties without the max(risk_score, 50)
counterparties_risk_KeepScore(m) ==
    LET base == IF m.unique_counterparties < 3 \/ PctAbove(m.top_count, m.total_tx, 80)
                THEN Tier("HIGH", 85)
                ELSE IF m.unique_counterparties < 10
                        \/ PctAbove(m.top_count, m.total_tx, 50)
                THEN Tier("MEDIUM", 55)
                ELSE Tier("LOW", 20)
    IN  IF m.high_risk_cp_count > 0 /\ base.risk_level = "LOW"
        THEN Tier("MEDIUM", base.risk_score)
        ELSE base

\* feature_counterparties: top_counterparty_pct = top_count / total_tx * 100;
\* a LOW verdict with a high-risk-country counterparty is escalated.
counterparties_risk(m) ==
    LET base == IF m.unique_counterparties < 3 \/ PctAbove(m.top_count, m.total_tx, 80)
                THEN Tier("HIGH", 85)
                ELSE IF m.unique_counterparties < 10
                        \/ PctAbove(m.top_count, m.total_tx, 50)
                THEN Tier("MEDIUM", 55)
                ELSE Tier("LOW", 20)
    IN  IF m.high_risk_cp_count > 0 /\ base.risk_level = "LOW"
        THEN Tier("MEDIUM", Max(base.risk_score, 50))
        ELSE base

irregularity_risk(m) ==
    IF m.irregularity_score > 60 THEN Tier("HIGH", 85)
    ELSE IF m.irregularity_score > 30 THEN Tier("MEDIUM", 50)
    ELSE Tier("LOW", 20)

\* feature_night_activity with a HIGH score that grows with the weekend nights
night_activity_risk_Graded(m) ==
    IF PctAbove(m.night_count, m.total_tx, 30) \/ m.night_weekend_count > 10
    THEN Tier("HIGH", IF m.night_weekend_count > 10 THEN 90 ELSE 85)
    ELSE IF PctAbove(m.night_count, m.total_tx, 10) \/ m.night_weekend_count > 3
    THEN Tier("MEDIUM", 50)
    ELSE Tier("LOW", 15)

night_activity_risk(m) ==
    IF PctAbove(m.night_count, m.total_tx, 30) \/ m.night_weekend_count > 10
    THEN Tier("HIGH", 85)
    ELSE IF PctAbove(m.night_count, m.total_tx, 10) \/ m.night_weekend_count > 3
    THEN Tier("MEDIUM", 50)
    ELSE Tier("LOW", 15)

\* feature_ephemeral_account: ephemeral_pct over the accounts with a lifetime
ephemeral_account_risk(m) ==
    IF m.valid_accounts = 0 THEN Tier("LOW", 0)
    ELSE IF PctAbove(m.ephemeral_count, m.valid_accounts, 30) \/ m.high_activity_count > 3
    THEN Tier("HIGH", 85)
    ELSE IF PctAbove(m.ephemeral_count, m.valid_accounts, 10) \/ m.high_activity_count > 0
    THEN Tier("MEDIUM", 55)
    ELSE Tier("LOW", 15)

\* risk_level and risk_score of the dictionary the computer returns
risk_assessment(feature, m) ==
    IF m.total_tx = 0 THEN Tier("LOW", 0)
    ELSE CASE feature = "frequency"         -> frequency_risk(m)
           [] feature = "burst_structuring" -> burst_structuring_risk(m)
           [] feature = "atypical_amounts"  -> atypical_amounts_risk(m)
           [] feature = "cross_border"      -> cross_border_risk(m)
           [] feature = "counterparties"    -> counterparties_risk(m)
           [] feature = "irregularity"      -> irregularity_risk(m)
           [] feature = "night_activity"    -> night_activity_risk(m)
           [] feature = "ephemeral_account" -> ephemeral_account_risk(m)

\* The metrics of a transaction set left empty by the partner filter
NoTx == [total_tx |-> 0]

\* Metrics of non-empty transaction sets, on both sides of every threshold
Metrics(feature) ==
    {NoTx} \cup
    CASE feature = "frequency" ->
           {[total_tx |-> n, date_range |-> d] : n \in {1, 3, 4, 10, 11, 30, 31}, d \in {1, 3}}
      [] feature = "burst_structuring" ->
           {[total_tx |-> 100, burst_hours |-> b, structuring_count |-> s] :
               b \in {0, 3, 4, 10, 11}, s \in {0, 5, 6, 20, 21}}
      [] feature = "atypical_amounts" ->
           {[total_tx |-> 100, outlier_count |-> o, extreme_outliers |-> e] :
               o \in {0, 5, 6, 10, 11}, e \in {0, 2, 3, 5, 6}}
      [] feature = "cross_border" ->
           {[total_tx |-> 100, cross_border_count |-> c, high_risk_count |-> h] :
               c \in {0, 20, 21, 50, 51}, h \in {0, 1, 5, 6}}
      [] feature = "counterparties" ->
           {m \in [total_tx : {20}, unique_counterparties : {1, 2, 3, 9, 10, 12},
                   top_count : 1..20, high_risk_cp_count : {0, 1}] :
               /\ m.top_count * m.unique_counterparties >= m.total_tx
               /\ m.top_count + m.unique_counterparties - 1 <= m.total_tx}
      [] feature = "irregularity" ->
           {[total_tx |-> 10, irregularity_score |-> i] : i \in {0, 30, 31, 60, 61, 100}}
      [] feature = "night_activity" ->
           {m \in [total_tx : {100}, night_count : {0, 10, 11, 30, 31},
                   night_weekend_count : {0, 3, 4, 10, 11}] :
               m.night_weekend_count <= m.night_count}
      [] feature = "ephemeral_account" ->
           {m \in [total_tx : {100}, valid_accounts : {20}, ephemeral_count : {0, 2, 3, 6, 7},
                   high_activity_count : {0, 1, 3, 4}] :
               m.high_activity_count <= m.ephemeral_count} \cup
           {[total_tx |-> 100, valid_accounts |-> 0, ephemeral_count |-> 0,
             high_activity_count |-> 0]}

\* Two transaction sets handed to the same computer
TierInputs ==
    /\ \E i \in 1..Len(RankerFeatures) :
         \E m1 \in Metrics(RankerFeatures[i]), m2 \in Metrics(RankerFeatures[i]) :
            call_args = [feature |-> RankerFeatures[i], first |-> m1, second |-> m2]
    /\ call_out = None

\* Both runs reach their risk assessment and return.
RiskAssessment ==
    /\ call_args # None
    /\ call_out = None
    /\ call_out' = [first  |-> risk_assessment(call_args.feature, call_args.first),
                    second |-> risk_assessment(call_args.feature, call_args.second)]
    /\ UNCHANGED call_args

InitTiers == TierInputs /\ OthersIdle
NextTiers == RiskAssessment /\ UNCHANGED othersVars
SpecTiers == InitTiers /\ [][NextTiers]_vars


(***************************************************************************)
(* C13: for each computer the risk_score is fixed by the risk_level: two   *)
(* results of the same computer on non-empty transaction sets that carry   *)
(* the same risk_level carry the same risk_score.                          *)
(***************************************************************************)
C13_ScoreFixedByLevel ==
    (call_out # None /\ call_args.first.total_tx > 0 /\ call_args.second.total_tx > 0
     /\ call_out.first.risk_level = call_out.second.risk_level)
        => call_out.first.risk_score = call_out.second.risk_score

\* The scores of the HIGH, MEDIUM and LOW tier of each computer
ScoreTable ==
    [frequency         |-> [HIGH |-> 85, MEDIUM |-> 55, LOW |-> 20],
     burst_structuring |-> [HIGH |-> 90, MEDIUM |-> 60, LOW |-> 15],
     atypical_amounts  |-> [HIGH |-> 85, MEDIUM |-> 55, LOW |-> 20],
     cross_border      |-> [HIGH |-> 85, MEDIUM |-> 55, LOW |-> 15],
     counterparties    |-> [HIGH |-> 85, MEDIUM |-> 55, LOW |-> 20],
     irregularity      |-> [HIGH |-> 85, MEDIUM |-> 50, LOW |-> 20],
     night_activity    |-> [HIGH |-> 85, MEDIUM |-> 50, LOW |-> 15],
     ephemeral_account |-> [HIGH |-> 85, MEDIUM |-> 55, LOW |-> 15]]

\* C13 amended: on a non-empty transaction set the risk_score is the constant
\* of the computer's tier, with two exceptions: Counterparties returns MEDIUM
\* with 50 (not 55) when a high-risk-country counterparty raised a LOW
\* verdict, and Ephemeral Account returns LOW with 0 (not 15) when no account
\* has a lifetime.
C13_ScoreFixedExceptEscalation ==
    call_out # None =>
        \A side \in {"first", "second"} :
            LET m == call_args[side]
                r == call_out[side]
                f == call_args.feature
            IN  m.total_tx > 0 =>
                    \/ /\ r.risk_score = ScoreTable[f][r.risk_level]
                       /\ f = "ephemeral_account" => m.valid_accounts > 0
                    \/ /\ f = "counterparties"
                       /\ m.high_risk_cp_count > 0
                       /\ m.unique_counterparties >= 10
                       /\ m.top_count * 100 <= 50 * m.total_tx
                       /\ r = Tier("MEDIUM", 50)
                    \/ /\ f = "ephemeral_account"
                       /\ m.valid_accounts = 0
                       /\ r = Tier("LOW", 0)

\* C13 witness: Counterparties returned an escalated MEDIUM with 50 and a
\* regular MEDIUM with 55.
C13_Witness ==
    /\ call_out # None
    /\ call_args.feature = "counterparties"
    /\ call_args.first.total_tx > 0
    /\ call_args.first.high_risk_cp_count > 0
    /\ call_out.first = Tier("MEDIUM", 50)
    /\ call_args.second.total_tx > 0
    /\ call_out.second = Tier("MEDIUM", 55)


(***************************************************************************)
(* C14: every result has a risk_level among LOW, MEDIUM, HIGH and a        *)
(* risk_score between 0 and 100, and within one computer a higher level    *)
(* always carries a strictly higher score: HIGH above MEDIUM above LOW.    *)
(***************************************************************************)
LevelRank(level) == CASE level = "LOW" -> 1 [] level = "MEDIUM" -> 2 [] level = "HIGH" -> 3

\* C14: levels and scores are in range and a higher level scores higher.
C14_LevelsAndMonotoneScores ==
    call_out # None =>
        /\ \A r \in {call_out.first, call_out.second} :
              /\ r.risk_level \in {"LOW", "MEDIUM", "HIGH"}
              /\ r.risk_score \in 0..100
        /\ LevelRank(call_out.first.risk_level) > LevelRank(call_out.second.risk_level)
              => call_out.first.risk_score > call_out.second.risk_score

\* C14 witness: the counterparties computer returned an escalated MEDIUM next
\* to a LOW, the pair with the smallest gap between two levels.
C14_Witness ==
    /\ call_out # None
    /\ call_args.feature = "counterparties"
    /\ call_args.first.total_tx > 0
    /\ call_args.first.high_risk_cp_count > 0
    /\ call_out.first = Tier("MEDIUM", 50)
    /\ call_out.second = Tier("LOW", 20)


(***************************************************************************)
(* SpecFrequency: feature_frequency on the Date column of a partner's      *)
(* transactions.  A timestamp is a number of hours since an epoch.         *)
(***************************************************************************)
RECURSIVE SeqMin(_)
SeqMin(s) == IF Len(s) = 1 THEN s[1] ELSE Min(s[1], SeqMin(Tail(s)))

RECURSIVE SeqMax(_)
SeqMax(s) == IF Len(s) = 1 THEN s[1] ELSE Max(s[1], SeqMax(Tail(s)))

\* Timedelta.days of a non-negative timedelta given in hours
days(hours) == hours \div 24

\* feature_frequency(df): metrics, risk_level and risk_score; tx_per_day_avg
\* is round(tx_per_day, 2), held in hundredths.
feature_frequency(dates) ==
    IF Len(dates) = 0
    THEN [metrics |-> [total_transactions |-> 0, date_range_days |-> 0,
                       tx_per_day_avg |-> 0],
          risk_level |-> "LOW", risk_score |-> 0]
    ELSE LET total_tx   == Len(dates)
             span       == days(SeqMax(dates) - SeqMin(dates))
             date_range == IF span = 0 THEN 1 ELSE span
             risk       == frequency_risk([total_tx |-> total_tx, date_range |-> date_range])
         IN  [metrics |-> [total_transactions |-> total_tx,
                           date_range_days |-> date_range,
                           tx_per_day_avg |-> round2(total_tx, date_range)],
              risk_level |-> risk.risk_level, risk_score |-> risk.risk_score]

MaxTx == 12

\* n transactions spread evenly from hour lo to hour lo + span
SpreadDates(n, lo, span) ==
    [i \in 1..n |-> lo + ((i - 1) * span) \div Max(n - 1, 1)]

FrequencyInputs ==
    /\ \E n \in 0..MaxTx, lo \in {0, 13}, span \in {0, 5, 23, 24, 47, 48, 72, 95} :
          /\ n <= 1 => span = 0
          /\ call_args = [dates |-> SpreadDates(n, lo, span)]
    /\ call_out = None

FeatureFrequency ==
    /\ call_args # None
    /\ call_out = None
    /\ call_out' = feature_frequency(call_args.dates)
    /\ UNCHANGED call_args

InitFrequency == FrequencyInputs /\ OthersIdle
NextFrequency == FeatureFrequency /\ UNCHANGED othersVars
SpecFrequency == InitFrequency /\ [][NextFrequency]_vars


(***************************************************************************)
(* C15: Frequency reports tx_per_day_avg = total_transactions /            *)
(* max(date_range_days, 1), date_range_days being the whole-day span from  *)
(* the first to the last transaction; the level is HIGH (85) above 10 per  *)
(* day, MEDIUM (55) above 3, else LOW (20).                                *)
(***************************************************************************)
WholeDaySpan(dates) ==
    LET S == {dates[i] : i \in 1..Len(dates)}
        first == CHOOSE t \in S : \A u \in S : t <= u
        last  == CHOOSE t \in S : \A u \in S : t >= u
    IN  (last - first) \div 24

FrequencyTiers(n, d) ==
    IF n > 10 * d THEN Tier("HIGH", 85)
    ELSE IF n > 3 * d THEN Tier("MEDIUM", 55)
    ELSE Tier("LOW", 20)

\* C15 as stated: the reported average is the exact quotient (in hundredths)
C15_ExactRate ==
    (call_out # None /\ Len(call_args.dates) > 0) =>
        LET m == call_out.metrics
        IN  /\ m.tx_per_day_avg * Max(m.date_range_days, 1) = 100 * m.total_transactions
            /\ Tier(call_out.risk_level, call_out.risk_score)
                 = FrequencyTiers(m.total_transactions, Max(m.date_range_days, 1))

\* C15 amended: the reported average is the quotient rounded to two decimal
\* places (the nearest hundredth), date_range_days is the whole-day span
\* floored at 1, and the level is decided on the unrounded quotient.
C15_RoundedRate ==
    (call_out # None /\ Len(call_args.dates) > 0) =>
        LET m == call_out.metrics
            n == Len(call_args.dates)
            d == Max(WholeDaySpan(call_args.dates), 1)
            e == m.tx_per_day_avg * d - 100 * n
        IN  /\ m.total_transactions = n
            /\ m.date_range_days = d
            /\ 2 * e <= d /\ 2 * (0 - e) <= d
            /\ Tier(call_out.risk_level, call_out.risk_score) = FrequencyTiers(n, d)

\* C15 witness: 10 transactions over a span of one whole day, exactly 10 per
\* day, were rated MEDIUM.
C15_Witness ==
    /\ call_out # None
    /\ Len(call_args.dates) = 10
    /\ call_out.metrics.date_range_days = 1
    /\ call_out.metrics.tx_per_day_avg = 1000
    /\ call_out.risk_level = "MEDIUM"


(***************************************************************************)
(* SpecBurst: feature_burst_structuring on prepared rows.  A row holds its *)
(* logical_partner_id, its Date in minutes since an epoch and its Amount.  *)
(***************************************************************************)
Abs(x) == IF x < 0 THEN 0 - x ELSE x

\* Series.dt.floor('h'), as an hour number
hour_window(date) == date \div 60

\* hourly_counts: the size of each (logical_partner_id, hour_window) group;
\* groupby leaves out the rows whose key is NaN.
hourly_counts(df) ==
    LET keys == {<<df[i].logical_partner_id, hour_window(df[i].Date)>> :
                    i \in {j \in 1..Len(df) : df[j].logical_partner_id # NaN}}
    IN  [k \in keys |->
            Cardinality({i \in 1..Len(df) :
                            /\ df[i].logical_partner_id = k[1]
                            /\ hour_window(df[i].Date) = k[2]})]

\* hourly_counts >= 5 instead of > 5
burst_hours_AtLeastFive(df) ==
    LET counts == hourly_counts(df)
    IN  Cardinality({k \in DOMAIN counts : counts[k] >= 5})

\* (hourly_counts > 5).sum()
burst_hours(df) ==
    LET counts == hourly_counts(df)
    IN  Cardinality({k \in DOMAIN counts : counts[k] > 5})

thresholds == <<10000, 9000, 5000>>

\* The rows counted for one threshold: 80% to 99% of it, bounds included
near_threshold(df, threshold) ==
    LET lower_amount == (threshold * 80) \div 100
        upper_amount == (threshold * 99) \div 100
    IN  Cardinality({i \in 1..Len(df) :
                        /\ Abs(df[i].Amount) >= lower_amount
                        /\ Abs(df[i].Amount) <= upper_amount})

structuring_count(df) ==
    SumSeq([t \in 1..Len(thresholds) |-> near_threshold(df, thresholds[t])])

feature_burst_structuring(df) ==
    IF Len(df) = 0
    THEN [metrics |-> [total_transactions |-> 0, burst_hours |-> 0, structuring_count |-> 0],
          risk_level |-> "LOW", risk_score |-> 0]
    ELSE LET m    == [total_tx |-> Len(df), burst_hours |-> burst_hours(df),
                      structuring_count |-> structuring_count(df)]
             risk == burst_structuring_risk(m)
         IN  [metrics |-> [total_transactions |-> m.total_tx,
                           burst_hours |-> m.burst_hours,
                           structuring_count |-> m.structuring_count],
              risk_level |-> risk.risk_level, risk_score |-> risk.risk_score]

\* size rows of one partner inside clock hour h
HourGroup(partner, h, size) ==
    [i \in 1..size |-> [logical_partner_id |-> partner, Date |-> (60 * h) + ((7 * i) % 60),
                        Amount |-> 500]]

RECURSIVE BurstGroups(_, _)
BurstGroups(g, size) ==
    IF g = 0 THEN <<>> ELSE BurstGroups(g - 1, size) \o HourGroup("p1", g, size)

\* Amounts inside or at the edge of a threshold band: 8500 lies in two bands
NearAmounts == <<9200, 9400, 8500, 4500, -9300, 9900, 8000, 7199, 4951>>

\* The first k rows of df carry the amounts of NearAmounts, in rotation
WithNearAmounts(df, k) ==
    [i \in 1..Len(df) |->
        IF i <= k THEN [df[i] EXCEPT !.Amount = NearAmounts[((i - 1) % Len(NearAmounts)) + 1]]
        ELSE df[i]]

\* The extra rows of a table: none, five rows in one hour, six rows of two
\* partners in one hour, or six rows without a partner in one hour
ExtraRows(extra) ==
    CASE extra = "none"         -> <<>>
      [] extra = "five"         -> HourGroup("p1", 30, 5)
      [] extra = "two_partners" -> HourGroup("p1", 30, 3) \o HourGroup("p2", 30, 3)
      [] extra = "no_partner"   -> HourGroup(NaN, 30, 6)

MaxBurstGroups == 11

BurstInputs ==
    /\ \E g \in {0, 1, 3, 4, 10, MaxBurstGroups}, size \in {6, 12},
          extra \in {"none", "five", "two_partners", "no_partner"},
          k \in {0, 2, 3, 5, 6, 24, 25, 26} :
          LET df == BurstGroups(g, size) \o ExtraRows(extra)
          IN  /\ k <= Len(df)
              /\ call_args = [df |-> WithNearAmounts(df, k)]
    /\ call_out = None

FeatureBurstStructuring ==
    /\ call_args # None
    /\ call_out = None
    /\ call_out' = feature_burst_structuring(call_args.df)
    /\ UNCHANGED call_args

InitBurst == BurstInputs /\ OthersIdle
NextBurst == FeatureBurstStructuring /\ UNCHANGED othersVars
SpecBurst == InitBurst /\ [][NextBurst]_vars


(***************************************************************************)
(* C16: Burst/Structuring counts as burst hours the (partner, clock-hour)  *)
(* groups holding more than 5 transactions, and rates HIGH (90) when       *)
(* burst_hours > 10 or structuring_count > 20, MEDIUM (60) when            *)
(* burst_hours > 3 or structuring_count > 5, else LOW (15).                *)
(***************************************************************************)
BurstTiers(b, s) ==
    IF b > 10 \/ s > 20 THEN Tier("HIGH", 90)
    ELSE IF b > 3 \/ s > 5 THEN Tier("MEDIUM", 60)
    ELSE Tier("LOW", 15)

RowsIn(df, partner, h) ==
    {i \in 1..Len(df) : df[i].logical_partner_id = partner /\ df[i].Date \div 60 = h}

\* C16: burst_hours counts the (partner, hour) groups of more than five rows
\* and the level follows the two thresholds.
C16_BurstHoursAndTiers ==
    (call_out # None /\ Len(call_args.df) > 0) =>
        LET df    == call_args.df
            hours == {df[i].Date \div 60 : i \in 1..Len(df)}
            busy  == {g \in {"p1", "p2"} \X hours : Cardinality(RowsIn(df, g[1], g[2])) > 5}
            m     == call_out.metrics
        IN  /\ m.burst_hours = Cardinality(busy)
            /\ Tier(call_out.risk_level, call_out.risk_score)
                 = BurstTiers(m.burst_hours, m.structuring_count)

\* C16 witness: ten bursts of six and six more rows in one hour that form no
\* group of more than five; burst_hours = 10 was rated MEDIUM.
C16_Witness ==
    /\ call_out # None
    /\ Len(call_args.df) = 66
    /\ call_out.metrics.burst_hours = 10
    /\ call_out.metrics.structuring_count <= 5
    /\ call_out.risk_level = "MEDIUM"


(***************************************************************************)
(* C17: a partner with 12 transactions in a single clock hour, amounts     *)
(* 9200 and 9400 among them, gets burst_hours = 1, structuring_count >= 2  *)
(* and a risk of at least MEDIUM.                                          *)
(***************************************************************************)
TwelveInOneHour ==
    /\ call_out # None
    /\ Len(call_args.df) = 12
    /\ \A i \in 1..12 : /\ call_args.df[i].logical_partner_id = "p1"
                        /\ call_args.df[i].Date \div 60 = call_args.df[1].Date \div 60
    /\ \E i, j \in 1..12 : call_args.df[i].Amount = 9200 /\ call_args.df[j].Amount = 9400

\* C17 as stated: the twelve transactions are rated at least MEDIUM.
C17_AtLeastMedium ==
    TwelveInOneHour =>
        /\ call_out.metrics.burst_hours = 1
        /\ call_out.metrics.structuring_count >= 2
        /\ call_out.risk_level \in {"MEDIUM", "HIGH"}

\* C17 amended: such a partner gets burst_hours = 1 and structuring_count
\* >= 2; one burst hour does not raise the level, which is LOW (15) unless
\* structuring_count exceeds 5, and then MEDIUM (60), or HIGH (90) above 20.
C17_LowUnlessStructuring ==
    TwelveInOneHour =>
        /\ call_out.metrics.burst_hours = 1
        /\ call_out.metrics.structuring_count >= 2
        /\ Tier(call_out.risk_level, call_out.risk_score)
             = (IF call_out.metrics.structuring_count > 20 THEN Tier("HIGH", 90)
                ELSE IF call_out.metrics.structuring_count > 5 THEN Tier("MEDIUM", 60)
                ELSE Tier("LOW", 15))

\* C17 witness: the twelve transactions hold no other amount near a threshold
\* and the partner was rated LOW.
C17_Witness ==
    /\ TwelveInOneHour
    /\ call_out.metrics.structuring_count = 2
    /\ call_out.risk_level = "LOW"
\* C27: each transaction contributes at most once to structuring_count, so
\* structuring_count never exceeds total_transactions.
C27_StructuringAtMostTotal ==
    (call_args # None /\ call_out # None)
        => call_out.metrics.structuring_count <= call_out.metrics.total_transactions



(***************************************************************************)
(* SpecCrossBorder: feature_cross_border on prepared rows.  A row holds    *)
(* its logical_partner_country and its counterparty_country, NaN when the  *)
(* country is unknown.                                                     *)
(***************************************************************************)
\* The countries of the tables, in the order of their names
CountryOrder == <<"Germany", "Panama", "Switzerland">>

CountryRank(c) == CHOOSE i \in 1..Len(CountryOrder) : CountryOrder[i] = c

\* Series.mode()[0] of the values that are not NaN: the most frequent value,
\* the first in sorted order among equally frequent ones; None without values.
mode(values) ==
    LET present  == {i \in 1..Len(values) : values[i] # NaN}
        count(c) == Cardinality({i \in present : values[i] = c})
        seen     == {values[i] : i \in present}
        modes    == {c \in seen : \A d \in seen : count(c) >= count(d)}
    IN  IF present = {} THEN NoneId
        ELSE CHOOSE c \in modes : \A d \in modes : CountryRank(c) <= CountryRank(d)

cross_border_high_risk_countries ==
    {"Panama", "China", "Iran", "North Korea", "Syria", "Afghanistan", "Yemen", "Myanmar",
     "Pakistan", "Turkey", "Uganda", "South Sudan", "Senegal", "Nigeria", "Mali",
     "Mozambique", "Philippines", "Venezuela", "Haiti", "Barbados", "Jamaica",
     "Democratic Republic of the Congo", "Burkina Faso", "Cameroon", "Croatia",
     "Tanzania", "Vietnam", "Albania", "Cayman Islands", "Jordan", "Monaco"}

feature_cross_border(df) ==
    IF Len(df) = 0
    THEN [metrics |-> [total_transactions |-> 0, home_country |-> NoneId,
                       cross_border_count |-> 0, high_risk_count |-> 0],
          risk_level |-> "LOW", risk_score |-> 0]
    ELSE LET home_country == mode([i \in 1..Len(df) |-> df[i].logical_partner_country])
             cross_border_mask ==
                 {i \in 1..Len(df) :
                     /\ df[i].counterparty_country # NaN
                     /\ home_country # NoneId => df[i].counterparty_country # home_country}
             high_risk_tx ==
                 {i \in 1..Len(df) :
                     df[i].counterparty_country \in cross_border_high_risk_countries}
             m == [total_tx |-> Len(df),
                   cross_border_count |-> Cardinality(cross_border_mask),
                   high_risk_count |-> Cardinality(high_risk_tx)]
             risk == cross_border_risk(m)
         IN  [metrics |-> [total_transactions |-> m.total_tx,
                           home_country |-> home_country,
                           cross_border_count |-> m.cross_border_count,
                           high_risk_count |-> m.high_risk_count],
              risk_level |-> risk.risk_level, risk_score |-> risk.risk_score]

Countries == {CountryOrder[i] : i \in 1..Len(CountryOrder)} \cup {NaN}

CrossRows == [logical_partner_country : Countries, counterparty_country : Countries]

MaxCrossRows == 2

Repeat(row, n) == [i \in 1..n |-> row]

\* Up to MaxCrossRows arbitrary rows followed by copies of one row
CrossBorderInputs ==
    /\ \E t \in SeqsUpTo(CrossRows, MaxCrossRows), row \in CrossRows, n \in {0, 5, 6} :
          call_args = [df |-> t \o Repeat(row, n)]
    /\ call_out = None

FeatureCrossBorder ==
    /\ call_args # None
    /\ call_out = None
    /\ call_out' = feature_cross_border(call_args.df)
    /\ UNCHANGED call_args

InitCrossBorder == CrossBorderInputs /\ OthersIdle
NextCrossBorder == FeatureCrossBorder /\ UNCHANGED othersVars
SpecCrossBorder == InitCrossBorder /\ [][NextCrossBorder]_vars


(***************************************************************************)
(* C18: Cross-Border takes as home country the most frequent value of the  *)
(* partner's own country field, and when every transaction is domestic     *)
(* (its counterparty country is the home country) it returns               *)
(* cross_border_count = 0 with risk LOW and score 15.                      *)
(***************************************************************************)
C18_DomesticIsLow ==
    (call_out # None /\ Len(call_args.df) > 0) =>
        LET df   == call_args.df
            home == call_out.metrics.home_country
            own(c) == Cardinality({i \in 1..Len(df) : df[i].logical_partner_country = c})
        IN  /\ home # NoneId =>
                  \A c \in Countries \ {NaN} : own(home) >= own(c)
            /\ (home # NoneId /\ \A i \in 1..Len(df) : df[i].counterparty_country = home) =>
                  /\ call_out.metrics.cross_border_count = 0
                  /\ call_out.risk_level = "LOW"
                  /\ call_out.risk_score = 15


(***************************************************************************)
(* SpecCounterparties: feature_counterparties on prepared rows.  A row     *)
(* holds its counterparty_id, counterparty_account_id and                  *)
(* counterparty_country, NaN when unknown.                                 *)
(***************************************************************************)
counterparties_high_risk_countries ==
    {"Panama", "China", "Iran", "North Korea", "Syria", "Afghanistan", "Yemen", "Myanmar",
     "Pakistan", "Turkey", "Uganda", "South Sudan", "Senegal", "Nigeria", "Mali"}

\* Series.dropna(): the positions of a column that hold a value
dropna(df, column) == {i \in 1..Len(df) : df[i][column] # NaN}

\* value_counts().iloc[0]: the size of the largest group of equal values
top_count(df, column, present) ==
    LET count(v) == Cardinality({i \in present : df[i][column] = v})
        values   == {df[i][column] : i \in present}
    IN  IF present = {} THEN 0
        ELSE CHOOSE n \in {count(v) : v \in values} : \A v \in values : n >= count(v)

feature_counterparties(df) ==
    IF Len(df) = 0
    THEN [metrics |-> [total_transactions |-> 0, unique_counterparties |-> 0,
                       high_risk_counterparty_count |-> 0],
          risk_level |-> "LOW", risk_score |-> 0]
    ELSE LET counterparties_partner == dropna(df, "counterparty_id")
             counterparties_account == dropna(df, "counterparty_account_id")
             column == IF counterparties_partner # {} THEN "counterparty_id"
                       ELSE "counterparty_account_id"
             counterparties == IF counterparties_partner # {} THEN counterparties_partner
                               ELSE counterparties_account
             m == [total_tx |-> Len(df),
                   unique_counterparties |->
                       Cardinality({df[i][column] : i \in counterparties}),
                   top_count |-> top_count(df, column, counterparties),
                   high_risk_cp_count |->
                       Cardinality({i \in 1..Len(df) :
                           df[i].counterparty_country \in counterparties_high_risk_countries})]
             risk == counterparties_risk(m)
         IN  [metrics |-> [total_transactions |-> m.total_tx,
                           unique_counterparties |-> m.unique_counterparties,
                           high_risk_counterparty_count |-> m.high_risk_cp_count],
              risk_level |-> risk.risk_level, risk_score |-> risk.risk_score]


MaxCounterparties == 11

CounterpartyPartnerIds ==
    <<"p01", "p02", "p03", "p04", "p05", "p06", "p07", "p08", "p09", "p10", "p11", "p12",
      "p13">>

CounterpartyAccountIds ==
    <<"a01", "a02", "a03", "a04", "a05", "a06", "a07", "a08", "a09", "a10", "a11", "a12",
      "a13">>

\* One row with counterparty number c, identified by partner id, by account
\* id only (an external counterparty) or not at all
CounterpartyRow(c, ids) ==
    [counterparty_id         |-> IF ids = "partner" /\ c > 0
                                 THEN CounterpartyPartnerIds[c] ELSE NaN,
     counterparty_account_id |-> IF ids = "none" \/ c = 0
                                 THEN NaN ELSE CounterpartyAccountIds[c],
     counterparty_country    |-> "Switzerland"]

\* top rows with counterparty 1, one row with each of the counterparties
\* 2..unique, and unknown rows without counterparty
CounterpartyTable(unique, top, unknown, ids) ==
    Repeat(CounterpartyRow(1, ids), top)
    \o [i \in 1..(unique - 1) |-> CounterpartyRow(i + 1, ids)]
    \o Repeat(CounterpartyRow(0, ids), unknown)

\* The last h rows have their counterparty in a high-risk country
WithHighRisk(df, h) ==
    [i \in 1..Len(df) |->
        IF i > Len(df) - h THEN [df[i] EXCEPT !.counterparty_country = "Panama"] ELSE df[i]]

CounterpartiesInputs ==
    /\ \E unique \in {1, 2, 3, 9, 10, MaxCounterparties}, top \in {1, 2, 8, 9, 10},
          unknown \in {0, 1}, ids \in {"partner", "account", "none"}, h \in {0, 1, 2} :
          LET df == CounterpartyTable(unique, top, unknown, ids)
          IN  /\ h <= Len(df)
              /\ call_args = [df |-> WithHighRisk(df, h)]
    /\ call_out = None

FeatureCounterparties ==
    /\ call_args # None
    /\ call_out = None
    /\ call_out' = feature_counterparties(call_args.df)
    /\ UNCHANGED call_args

InitCounterparties == CounterpartiesInputs /\ OthersIdle
NextCounterparties == FeatureCounterparties /\ UNCHANGED othersVars
SpecCounterparties == InitCounterparties /\ [][NextCounterparties]_vars


(***************************************************************************)
(* C19: Counterparties rates HIGH when there are fewer than 3 unique       *)
(* counterparties or the top counterparty holds more than 80% of the       *)
(* transactions, MEDIUM when fewer than 10 or more than 50%, else LOW; and *)
(* with a transaction whose counterparty is in a high-risk country the     *)
(* level is never LOW: LOW becomes MEDIUM, HIGH and MEDIUM stay.           *)
(***************************************************************************)
\* The counterparties of a table: partner ids, or account ids when no row
\* has a partner id
IdColumn(df) ==
    IF \E i \in 1..Len(df) : df[i].counterparty_id # NaN
    THEN "counterparty_id" ELSE "counterparty_account_id"

BaseLevel(df) ==
    LET col    == IdColumn(df)
        ids    == {df[i][col] : i \in 1..Len(df)} \ {NaN}
        share(v) == Cardinality({i \in 1..Len(df) : df[i][col] = v})
    IN  IF Cardinality(ids) < 3 \/ \E v \in ids : share(v) * 100 > 80 * Len(df)
        THEN "HIGH"
        ELSE IF Cardinality(ids) < 10 \/ \E v \in ids : share(v) * 100 > 50 * Len(df)
        THEN "MEDIUM"
        ELSE "LOW"

\* C19: the level is the tier of the table, raised from LOW to MEDIUM by a
\* high-risk-country counterparty.
C19_TiersAndEscalation ==
    (call_out # None /\ Len(call_args.df) > 0) =>
        LET df   == call_args.df
            base == BaseLevel(df)
            high_risk == \E i \in 1..Len(df) : df[i].counterparty_country = "Panama"
        IN  /\ ~high_risk => call_out.risk_level = base
            /\ high_risk => /\ call_out.risk_level # "LOW"
                            /\ call_out.risk_level = IF base = "LOW" THEN "MEDIUM" ELSE base

\* C19 witness: ten counterparties, none above 50%, one of them in a
\* high-risk country: the LOW verdict was returned as MEDIUM.
C19_Witness ==
    /\ call_out # None
    /\ Len(call_args.df) > 0
    /\ BaseLevel(call_args.df) = "LOW"
    /\ call_out.metrics.unique_counterparties >= 10
    /\ call_out.metrics.high_risk_counterparty_count > 0
    /\ call_out.risk_level = "MEDIUM"


(***************************************************************************)
(* SpecEphemeral: feature_ephemeral_account on prepared rows.  A row holds *)
(* its logical_account_id, the open and close date of that account and    *)
(* the Date of the transaction; a date is a day number, NaT when missing   *)
(* or unparseable.                                                         *)
(***************************************************************************)
NaT == 0 - 1

\* groupby(...).agg('first'): the first value of the group that is not NaT
first(df, rows, column) ==
    LET present == {i \in rows : df[i][column] # NaT}
    IN  IF present = {} THEN NaT
        ELSE df[CHOOSE i \in present : \A j \in present : i <= j][column]

\* agg('min') and agg('max') of Date: NaT values are skipped
date_min(df, rows) ==
    LET present == {df[i].Date : i \in rows} \ {NaT}
    IN  IF present = {} THEN NaT ELSE CHOOSE d \in present : \A e \in present : d <= e

date_max(df, rows) ==
    LET present == {df[i].Date : i \in rows} \ {NaT}
    IN  IF present = {} THEN NaT ELSE CHOOSE d \in present : \A e \in present : d >= e

\* One row of account_data per logical_account_id; agg('count') counts the
\* rows whose Date is not NaT.
account_data(df) ==
    LET ids == {df[i].logical_account_id : i \in 1..Len(df)} \ {NaN}
    IN  {LET rows == {i \in 1..Len(df) : df[i].logical_account_id = a}
         IN  [account_id    |-> a,
              open_date     |-> first(df, rows, "logical_account_open_date"),
              close_date    |-> first(df, rows, "logical_account_close_date"),
              first_tx_date |-> date_min(df, rows),
              last_tx_date  |-> date_max(df, rows),
              tx_count      |-> Cardinality({i \in rows : df[i].Date # NaT})] : a \in ids}

\* calc_lifetime: <<days>>, or <<>> for NaN
calc_lifetime(row, today) ==
    LET open_date == IF row.open_date = NaT THEN row.first_tx_date ELSE row.open_date
        end_date  == IF row.close_date # NaT THEN row.close_date
                     ELSE IF row.last_tx_date # NaT THEN row.last_tx_date
                     ELSE today
    IN  IF open_date = NaT THEN <<>> ELSE <<end_date - open_date>>

feature_ephemeral_account(df, today) ==
    IF Len(df) = 0
    THEN [metrics |-> [total_accounts |-> 0, ephemeral_count |-> 0],
          risk_level |-> "LOW", risk_score |-> 0]
    ELSE LET lifetimes == {[account |-> row, lifetime_days |-> calc_lifetime(row, today)] :
                              row \in account_data(df)}
             valid_accounts == {l \in lifetimes : l.lifetime_days # <<>>}
             ephemeral      == {l \in valid_accounts : l.lifetime_days[1] < 90}
             very_ephemeral == {l \in valid_accounts : l.lifetime_days[1] < 30}
             high_activity_ephemeral == {l \in ephemeral : l.account.tx_count > 10}
             risk == ephemeral_account_risk(
                         [valid_accounts |-> Cardinality(valid_accounts),
                          ephemeral_count |-> Cardinality(ephemeral),
                          high_activity_count |-> Cardinality(high_activity_ephemeral)])
         IN  [metrics |-> IF valid_accounts = {}
                          THEN [total_accounts |-> 0, ephemeral_count |-> 0]
                          ELSE [total_accounts |-> Cardinality(valid_accounts),
                                ephemeral_count |-> Cardinality(ephemeral),
                                very_ephemeral_count |-> Cardinality(very_ephemeral),
                                high_activity_ephemeral_count |->
                                    Cardinality(high_activity_ephemeral)],
              risk_level |-> risk.risk_level, risk_score |-> risk.risk_score]


AccountIds ==
    <<"acc01", "acc02", "acc03", "acc04", "acc05", "acc06", "acc07", "acc08", "acc09",
      "acc10", "acc11", "acc12", "acc13", "acc14", "acc15", "acc16", "acc17", "acc18",
      "acc19", "acc20", "acc21", "acc22", "acc23", "acc24">>

\* The rows of one account: one per entry of dates, each carrying the
\* account's open and close date
AccountRows(account, open_date, close_date, dates) ==
    [i \in 1..Len(dates) |->
        [logical_account_id         |-> account,
         logical_account_open_date  |-> open_date,
         logical_account_close_date |-> close_date,
         Date                       |-> dates[i]]]

\* count accounts numbered from `from`, each with the same dates
RECURSIVE Accounts(_, _, _, _, _)
Accounts(from, count, open_date, close_date, dates) ==
    IF count = 0 THEN <<>>
    ELSE AccountRows(AccountIds[from], open_date, close_date, dates)
         \o Accounts(from + 1, count - 1, open_date, close_date, dates)

MaxAccounts == 14

\* One account with every combination of missing dates, beside long-lived
\* accounts and a row without account
ProbeTables ==
    {AccountRows(AccountIds[1], open_date, close_date,
                 SpreadDates(dated, 5, span) \o Repeat(NaT, undated))
     \o Accounts(2, others, 0, 400, <<10>>)
     \o (IF stray THEN AccountRows(NaN, 0, 20, <<10>>) ELSE <<>>) :
        open_date \in {NaT, 0}, close_date \in {NaT, 20, 29, 30, 89, 90},
        dated \in {0, 1, 10, 11, 15}, span \in {10, 100}, undated \in {0, 15},
        others \in {0, 9}, stray \in BOOLEAN}

\* Populations of high-activity ephemeral, plain ephemeral and long-lived
\* accounts
PopulationTables ==
    {Accounts(1, busy, 0, 20, SpreadDates(11, 1, 10))
     \o Accounts(5, plain, 0, 89, <<10>>)
     \o Accounts(8, long, 0, 90, <<10>>) :
        busy \in {0, 1, 3, 4}, plain \in {0, 1, 2, 3}, long \in {0, 9, 10, MaxAccounts}}

EphemeralInputs ==
    /\ \E df \in ProbeTables \cup PopulationTables, today \in {25, 120} :
          call_args = [df |-> df, today |-> today]
    /\ call_out = None

FeatureEphemeralAccount ==
    /\ call_args # None
    /\ call_out = None
    /\ call_out' = feature_ephemeral_account(call_args.df, call_args.today)
    /\ UNCHANGED call_args

InitEphemeral == EphemeralInputs /\ OthersIdle
NextEphemeral == FeatureEphemeralAccount /\ UNCHANGED othersVars
SpecEphemeral == InitEphemeral /\ [][NextEphemeral]_vars


(***************************************************************************)
(* C20: Ephemeral Account takes an account's lifetime as (close date, else *)
(* last transaction date, else now) - (open date, else first transaction  *)
(* date); the account is ephemeral iff the lifetime is < 90 days, very     *)
(* ephemeral iff < 30, high-activity ephemeral iff ephemeral with more     *)
(* than 10 transactions; the level is HIGH when ephemeral% > 30 or the     *)
(* high-activity count > 3, MEDIUM when ephemeral% > 10 or the count > 0,  *)
(* else LOW; one account opened and closed within 20 days with 15          *)
(* transactions gives very_ephemeral_count = 1,                            *)
(* high_activity_ephemeral_count = 1 and HIGH.                             *)
(***************************************************************************)
RowsOfAccount(df, a) == {i \in 1..Len(df) : df[i].logical_account_id = a}

\* The values other than NaT a column holds in the rows of account a
Known(df, a, column) == {df[i][column] : i \in RowsOfAccount(df, a)} \ {NaT}

Earliest(S) == CHOOSE d \in S : \A e \in S : d <= e
Latest(S) == CHOOSE d \in S : \A e \in S : d >= e

HasLifetime(df, a) ==
    Known(df, a, "logical_account_open_date") # {} \/ Known(df, a, "Date") # {}

Lifetime(df, a, today) ==
    LET opened == Known(df, a, "logical_account_open_date")
        closed == Known(df, a, "logical_account_close_date")
        dated  == Known(df, a, "Date")
        start  == IF opened # {} THEN Earliest(opened) ELSE Earliest(dated)
        end    == IF closed # {} THEN Earliest(closed)
                  ELSE IF dated # {} THEN Latest(dated)
                  ELSE today
    IN  end - start

EphemeralTiers(ephemeral, accounts, high_activity) ==
    IF ephemeral * 100 > 30 * accounts \/ high_activity > 3 THEN Tier("HIGH", 85)
    ELSE IF ephemeral * 100 > 10 * accounts \/ high_activity > 0 THEN Tier("MEDIUM", 55)
    ELSE Tier("LOW", 15)

\* The rule of C20 on the table and the result of a run
EphemeralRule ==
    LET df    == call_args.df
        today == call_args.today
        ids   == {df[i].logical_account_id : i \in 1..Len(df)} \ {NaN}
        valid == {a \in ids : HasLifetime(df, a)}
        ephemeral == {a \in valid : Lifetime(df, a, today) < 90}
        very  == {a \in valid : Lifetime(df, a, today) < 30}
        high  == {a \in ephemeral : Cardinality(RowsOfAccount(df, a)) > 10}
        m     == call_out.metrics
    IN  valid # {} =>
            /\ m.total_accounts = Cardinality(valid)
            /\ m.ephemeral_count = Cardinality(ephemeral)
            /\ m.very_ephemeral_count = Cardinality(very)
            /\ m.high_activity_ephemeral_count = Cardinality(high)
            /\ Tier(call_out.risk_level, call_out.risk_score)
                 = EphemeralTiers(Cardinality(ephemeral), Cardinality(valid),
                                  Cardinality(high))
            /\ \A a \in ids :
                  (/\ ids = {a}
                   /\ Cardinality(RowsOfAccount(df, a)) = 15
                   /\ \A i \in RowsOfAccount(df, a) :
                         /\ df[i].logical_account_open_date # NaT
                         /\ df[i].logical_account_close_date # NaT
                         /\ df[i].logical_account_close_date
                              - df[i].logical_account_open_date \in 0..20)
                  => /\ m.very_ephemeral_count = 1
                     /\ m.high_activity_ephemeral_count = 1
                     /\ call_out.risk_level = "HIGH"

\* C20: the counts and the level of every run follow the rule above, a
\* transaction of an account being any of its rows.
C20_EphemeralRule ==
    (call_out # None /\ Len(call_args.df) > 0) => EphemeralRule


(***************************************************************************)
(* SpecAbnormal: feature_abnormal_activity on the rows of one partner.  A  *)
(* row holds its Date as a day number and its Amount.  The computer prints *)
(* its findings; `printed` is the message or the risk it printed and       *)
(* `returned` the value of the call.                                       *)
(***************************************************************************)
\* df.sort_values('Date'): the sort is not stable, rows of the same date come
\* in any order
sort_by_date(df) ==
    {[i \in DOMAIN df |-> df[pi[i]]] : pi \in
        {q \in Perms(DOMAIN df) :
            \A i \in 1..(Len(df) - 1) : df[q[i]].Date <= df[q[i + 1]].Date}}

\* (window['Date'].max() - window['Date'].min()).days or 1, the window sorted
period_days(window) ==
    LET span == window[Len(window)].Date - window[1].Date
    IN  IF span = 0 THEN 1 ELSE span

abs_amounts(window) == SumSeq([i \in 1..Len(window) |->
                                  IF window[i].Amount < 0 THEN 0 - window[i].Amount
                                  ELSE window[i].Amount])

\* The risk printed for a baseline and a recent window: an increase above
\* k * 100 percent is a ratio above k + 1
abnormal_risk(baseline, recent) ==
    LET rate_above(k) == Len(recent) * period_days(baseline)
                            > (k + 1) * Len(baseline) * period_days(recent)
        amount_above(k) == /\ abs_amounts(baseline) > 0
                           /\ abs_amounts(recent) * Len(baseline)
                                > (k + 1) * abs_amounts(baseline) * Len(recent)
    IN  IF rate_above(2) \/ amount_above(2) THEN "HIGH"
        ELSE IF rate_above(1) \/ amount_above(1) THEN "MEDIUM"
        ELSE "LOW"

\* The body of feature_abnormal_activity after the partner filter, on the
\* sorted rows: every path ends in a bare return or falls off the end.
abnormal_activity(sorted) ==
    LET split_point == (Len(sorted) * 8) \div 10
        baseline    == SubSeq(sorted, 1, split_point)
        recent      == SubSeq(sorted, split_point + 1, Len(sorted))
    IN  [printed  |-> IF Len(sorted) = 0 THEN "No transactions found"
                      ELSE IF Len(baseline) = 0 \/ Len(recent) = 0
                      THEN "Insufficient data for comparison"
                      ELSE abnormal_risk(baseline, recent),
         returned |-> None]

AbnormalRows == [Date : {0, 1, 10}, Amount : {0, 100, -400}]

MaxAbnormalRows == 3

\* Tables of up to MaxAbnormalRows rows, and tables of five rows with one
\* larger amount
AbnormalInputs ==
    /\ call_args \in {[df |-> t] : t \in SeqsUpTo(AbnormalRows, MaxAbnormalRows)}
                     \cup {[df |-> [i \in 1..5 |->
                                       [Date |-> i, Amount |-> IF i = k THEN a ELSE 100]]] :
                              k \in 1..5, a \in {100, 250, 350, -400}}
    /\ call_out = None

FeatureAbnormalActivity ==
    /\ call_args # None
    /\ call_out = None
    /\ \E sorted \in sort_by_date(call_args.df) : call_out' = abnormal_activity(sorted)
    /\ UNCHANGED call_args

InitAbnormal == AbnormalInputs /\ OthersIdle
NextAbnormal == FeatureAbnormalActivity /\ UNCHANGED othersVars
SpecAbnormal == InitAbnormal /\ [][NextAbnormal]_vars


(***************************************************************************)
(* C21: Abnormal Activity takes the first floor(0.8 n) transactions in     *)
(* date order as baseline and the rest as recent, reports insufficient     *)
(* data exactly when one window is empty, and otherwise returns a feature  *)
(* result whose level is HIGH, MEDIUM or LOW.                              *)
(***************************************************************************)
C21_AbnormalActivityResult ==
    (call_out # None /\ Len(call_args.df) > 0) =>
        LET n == Len(call_args.df)
            insufficient == (4 * n) \div 5 = 0 \/ (4 * n) \div 5 = n
        IN  /\ call_out.printed = "Insufficient data for comparison" <=> insufficient
            /\ ~insufficient =>
                  /\ call_out.returned # None
                  /\ call_out.returned.risk_level \in {"HIGH", "MEDIUM", "LOW"}


(***************************************************************************)
(* SpecCountry: sent_amounts_by_country.  A timestamp is a number of       *)
(* half-days since an epoch (day d at midnight is 2d, at noon 2d + 1), NaT *)
(* when unparseable; a date given by the caller is a day number, absent    *)
(* when <<>>.  A raw Amount is <<v>>, or <<>> when it is not a number.     *)
(***************************************************************************)
\* pd.to_datetime of a YYYY-MM-DD date: midnight of that day
to_datetime(day) == 2 * day

\* pd.Timedelta(days=n)
Timedelta(n) == 2 * n

\* str.lower().str.strip() of the direction values of the tables
lower_strip(direction) ==
    CASE direction \in {"debit", "Debit ", "DEBIT"} -> "debit"
      [] direction \in {"credit", "Credit"}         -> "credit"

\* fillna("Unknown").astype(str).str.strip().replace({"": "Unknown"})
country_clean(country) ==
    IF country = NaN THEN "Unknown"
    ELSE IF country \in {"", " "} THEN "Unknown"
    ELSE country

\* load_transactions dropping the rows whose country is missing or blank
RECURSIVE load_transactions_DropBlank(_)
load_transactions_DropBlank(raw) ==
    IF raw = <<>> THEN <<>>
    ELSE LET r == Head(raw)
             rest == load_transactions_DropBlank(Tail(raw))
         IN  IF r.Date = NaT \/ country_clean(r.country) = "Unknown" THEN rest
             ELSE <<[tx_date          |-> r.Date,
                     amount_value     |-> IF r.Amount = <<>> THEN 0 ELSE r.Amount[1],
                     is_debit         |-> lower_strip(r.direction) = "debit",
                     account_id_value |-> r.account,
                     country_clean    |-> country_clean(r.country)]>> \o rest

\* load_transactions after read_csv: rows without a valid date are dropped
RECURSIVE load_transactions(_)
load_transactions(raw) ==
    IF raw = <<>> THEN <<>>
    ELSE LET r == Head(raw)
             rest == load_transactions(Tail(raw))
         IN  IF r.Date = NaT THEN rest
             ELSE <<[tx_date          |-> r.Date,
                     amount_value     |-> IF r.Amount = <<>> THEN 0 ELSE r.Amount[1],
                     is_debit         |-> lower_strip(r.direction) = "debit",
                     account_id_value |-> r.account,
                     country_clean    |-> country_clean(r.country)]>> \o rest

\* compute_date_bounds: <<start, end>>, start being <<>> for None
compute_date_bounds(df, start_date, end_date, window_days, now) ==
    LET end == IF end_date # <<>> THEN to_datetime(end_date[1])
               ELSE IF df # <<>> THEN SeqMax([i \in 1..Len(df) |-> df[i].tx_date])
               ELSE now
        start == IF window_days # <<>> THEN <<end - Timedelta(window_days[1])>>
                 ELSE IF start_date # <<>> THEN <<to_datetime(start_date[1])>>
                 ELSE <<>>
    IN  <<start, end>>

\* amount_sent_per_country with the end of the window excluded
amount_sent_per_country_ExclusiveEnd(df, account_id, start_date, end_date, window_days, now) ==
    LET bounds == compute_date_bounds(df, start_date, end_date, window_days, now)
        start  == bounds[1]
        end    == bounds[2]
        subset == {i \in 1..Len(df) :
                      /\ df[i].account_id_value = account_id
                      /\ df[i].is_debit
                      /\ start # <<>> => df[i].tx_date >= start[1]
                      /\ df[i].tx_date < end}
        keys   == {df[i].country_clean : i \in subset}
        total(c) == SumSeq([i \in 1..Len(df) |->
                               IF i \in subset /\ df[i].country_clean = c
                               THEN df[i].amount_value ELSE 0])
    IN  {[grouped |-> [i \in 1..Cardinality(keys) |->
                          [country_clean |-> o[i], total_sent |-> total(o[i])]],
          start |-> start, end |-> end] :
            o \in {p \in Perms(keys) :
                      \A i \in 1..(Cardinality(keys) - 1) : total(p[i]) >= total(p[i + 1])}}

\* The possible return values of amount_sent_per_country: the grouped totals
\* in any descending order (equal totals come in any order), start and end
amount_sent_per_country(df, account_id, start_date, end_date, window_days, now) ==
    LET bounds == compute_date_bounds(df, start_date, end_date, window_days, now)
        start  == bounds[1]
        end    == bounds[2]
        subset == {i \in 1..Len(df) :
                      /\ df[i].account_id_value = account_id
                      /\ df[i].is_debit
                      /\ start # <<>> => df[i].tx_date >= start[1]
                      /\ df[i].tx_date <= end}
        keys   == {df[i].country_clean : i \in subset}
        total(c) == SumSeq([i \in 1..Len(df) |->
                               IF i \in subset /\ df[i].country_clean = c
                               THEN df[i].amount_value ELSE 0])
    IN  {[grouped |-> [i \in 1..Cardinality(keys) |->
                          [country_clean |-> o[i], total_sent |-> total(o[i])]],
          start |-> start, end |-> end] :
            o \in {p \in Perms(keys) :
                      \A i \in 1..(Cardinality(keys) - 1) : total(p[i]) >= total(p[i + 1])}}

DEFAULT_WINDOW_DAYS == 30

\* main(): the argument checks, the default window, then the aggregation
main(args, raw, now) ==
    IF args.window_days # <<>> /\ args.window_days[1] <= 0 THEN {Raised("ValueError")}
    ELSE IF args.start_date # <<>> /\ args.window_days # <<>> THEN {Raised("ValueError")}
    ELSE LET window_days == IF args.window_days = <<>> /\ args.start_date = <<>>
                               /\ args.end_date = <<>>
                            THEN <<DEFAULT_WINDOW_DAYS>> ELSE args.window_days
         IN  {Returned(r) : r \in amount_sent_per_country(
                                      load_transactions(raw), args.account_id,
                                      args.start_date, args.end_date, window_days, now)}


\* AccountAgent._outgoing_countries for one account: the call is made with
\* window_days=None and no dates; the pairs are the grouped totals, re-sorted
\* by a stable descending sort, which leaves them as they are.
outgoing_countries(df, account_id, now) ==
    amount_sent_per_country(df, account_id, <<>>, <<>>, <<>>, now)

CountryRow(account, direction, date, amount, country) ==
    [account |-> account, direction |-> direction, Date |-> date, Amount |-> amount,
     country |-> country]

\* Debit rows of account A at noon of day 5, at midnight of day 10, at
\* midnight and noon of day 40, and rows that differ from them in one way
CountryRows ==
    {CountryRow("A", "debit", d, <<a>>, c) :
        d \in {11, 20, 80, 81}, a \in {100, -50}, c \in {"CH", "DE", " "}}
    \cup {CountryRow("A", "debit", 80, <<100>>, NaN),
          CountryRow("A", "debit", 80, <<>>, "CH"),
          CountryRow("A", "debit", NaT, <<100>>, "CH"),
          CountryRow("A", "Debit ", 80, <<100>>, "CH"),
          CountryRow("A", "credit", 80, <<100>>, "CH"),
          CountryRow("B", "debit", 80, <<100>>, "CH")}

MaxCountryRows == 2

CountryArgs ==
    [account_id : {"A"}, start_date : {<<>>, <<10>>}, end_date : {<<>>, <<40>>},
     window_days : {<<>>, <<30>>, <<0>>}]

\* utcnow().normalize(): midnight of the current day
NowValues == {to_datetime(100), to_datetime(200)}

CountryInputs ==
    /\ call_args \in [raw : SeqsUpTo(CountryRows, MaxCountryRows), args : CountryArgs]
    /\ call_out = None

\* The command line entry point
Main ==
    /\ call_args # None
    /\ call_out = None
    /\ \E now \in NowValues : \E r \in main(call_args.args, call_args.raw, now) :
          call_out' = [entry |-> "main", raised |-> r.raised, value |-> r.value]
    /\ UNCHANGED call_args

\* A direct call of amount_sent_per_country on the loaded table
AmountSentPerCountry ==
    /\ call_args # None
    /\ call_out = None
    /\ \E now \in NowValues :
          \E r \in amount_sent_per_country(load_transactions(call_args.raw),
                                           call_args.args.account_id,
                                           call_args.args.start_date,
                                           call_args.args.end_date,
                                           call_args.args.window_days, now) :
             call_out' = [entry |-> "amount_sent_per_country", raised |-> NoneId,
                          value |-> r]
    /\ UNCHANGED call_args

\* AccountAgent._outgoing_countries, which takes account ids only
OutgoingCountries ==
    /\ call_args # None
    /\ call_out = None
    /\ call_args.args.start_date = <<>>
    /\ call_args.args.end_date = <<>>
    /\ call_args.args.window_days = <<>>
    /\ \E now \in NowValues :
          \E r \in outgoing_countries(load_transactions(call_args.raw),
                                      call_args.args.account_id, now) :
             call_out' = [entry |-> "_outgoing_countries", raised |-> NoneId, value |-> r]
    /\ UNCHANGED call_args

InitCountry == CountryInputs /\ OthersIdle
NextCountry ==
    \/ Main /\ UNCHANGED othersVars
    \/ AmountSentPerCountry /\ UNCHANGED othersVars
    \/ OutgoingCountries /\ UNCHANGED othersVars
SpecCountry == InitCountry /\ [][NextCountry]_vars


\* The raw rows the aggregation is about: valid date, the account asked for,
\* direction debit, inside the window the call returned
SentRows ==
    LET raw == call_args.raw
        v   == call_out.value
    IN  {i \in 1..Len(raw) :
            /\ raw[i].Date # NaT
            /\ raw[i].account = call_args.args.account_id
            /\ lower_strip(raw[i].direction) = "debit"
            /\ v.start # <<>> => raw[i].Date >= v.start[1]
            /\ raw[i].Date <= v.end}

RawAmount(i) ==
    IF call_args.raw[i].Amount = <<>> THEN 0 ELSE call_args.raw[i].Amount[1]

SentTotal(rows) ==
    SumSeq([i \in 1..Len(call_args.raw) |-> IF i \in rows THEN RawAmount(i) ELSE 0])

CountryCallReturned ==
    /\ call_args # None
    /\ call_out # None
    /\ call_out.raised = NoneId

C22_WitnessExcluded ==
    /\ CountryCallReturned
    /\ Len(call_out.value.grouped) = 1
    /\ \E i \in 1..Len(call_args.raw) :
          /\ i \notin SentRows
          /\ call_args.raw[i].Date # NaT
          /\ call_args.raw[i].Date <= call_out.value.end
          /\ \/ call_args.raw[i].account # call_args.args.account_id
             \/ lower_strip(call_args.raw[i].direction) = "credit"

\* C23: a call that supplies both an explicit start date and a lookback
\* window is rejected as a usage error and produces no totals.
C23_StartAndWindowRejected ==
    (/\ call_args # None
     /\ call_out # None
     /\ "entry" \in DOMAIN call_out
     /\ call_args.args.start_date # <<>>
     /\ call_args.args.window_days # <<>>)
        => /\ call_out.raised = "ValueError"
           /\ call_out.value = None

\* C24: given neither start/end dates nor a lookback window, the window is the
\* 30 days up to the latest transaction date of the dataset whenever the
\* dataset has a valid date: never unbounded, never anchored to the clock.
C24_DefaultWindow ==
    (/\ CountryCallReturned
     /\ call_args.args.start_date = <<>>
     /\ call_args.args.end_date = <<>>
     /\ call_args.args.window_days = <<>>
     /\ \E i \in 1..Len(call_args.raw) : call_args.raw[i].Date # NaT)
        => LET raw    == call_args.raw
               latest == CHOOSE d \in {raw[i].Date : i \in 1..Len(raw)} :
                            \A i \in 1..Len(raw) : raw[i].Date <= d
           IN  /\ call_out.value.end = latest
               /\ call_out.value.start = <<latest - Timedelta(30)>>

\* C30: the totals of the returned countries add up to the amounts of the
\* debit rows of the account inside the window; a row whose country is
\* missing or blank is totalled under "Unknown", never dropped.
C30_MoneyConserved ==
    CountryCallReturned =>
        LET grouped == call_out.value.grouped
            raw     == call_args.raw
        IN  /\ SumSeq([k \in DOMAIN grouped |-> grouped[k].total_sent]) = SentTotal(SentRows)
            /\ (\E i \in SentRows : raw[i].country \in {NaN, "", " "})
                  => \E k \in DOMAIN grouped :
                        /\ grouped[k].country_clean = "Unknown"
                        /\ grouped[k].total_sent
                             = SentTotal({i \in SentRows : raw[i].country \in {NaN, "", " "}})

\* C30 witness: a row without a country and a row with one, both counted
C30_Witness ==
    /\ CountryCallReturned
    /\ Len(call_out.value.grouped) = 2
    /\ \E i, j \in SentRows :
          /\ call_args.raw[i].country = NaN
          /\ call_args.raw[j].country = "CH"
          /\ RawAmount(i) # 0


(***************************************************************************)
(* SpecRuns: one feature computer run twice on the same table, the second  *)
(* run at a later time of the clock.  Times are day numbers.               *)
(***************************************************************************)

\* (end_date - open_date).days / 30.44 < 6: fewer than 182.64 days
new_account(row, today) ==
    /\ row.account_open_date # NaT
    /\ LET end_date == IF row.account_close_date # NaT THEN row.account_close_date
                       ELSE today
       IN  100 * (end_date - row.account_open_date) < 6 * 3044

\* feature_account_age with what it prints: the new accounts and the risk;
\* it returns nothing
feature_account_age_printed(accounts_df, today) ==
    IF Len(accounts_df) = 0
    THEN [printed |-> [new_accounts |-> 0, risk |-> "No accounts found"], returned |-> None]
    ELSE LET new_accounts == Cardinality({i \in 1..Len(accounts_df) :
                                             new_account(accounts_df[i], today)})
             risk == IF PctAbove(new_accounts, Len(accounts_df), 40) THEN "HIGH"
                     ELSE IF PctAbove(new_accounts, Len(accounts_df), 20) THEN "MEDIUM"
                     ELSE "LOW"
         IN  [printed |-> [new_accounts |-> new_accounts, risk |-> risk], returned |-> None]

AccountAgeRows == [account_open_date : {NaT, 0, 100}, account_close_date : {NaT, 150}]

MaxAgeRows == 3

\* The two times of the clock, the first run before the second
Clocks == {<<25, 120>>, <<120, 300>>}

RunsInputs ==
    /\ \/ \E df \in ProbeTables \cup PopulationTables, clock \in Clocks :
             call_args = [computer |-> "feature_ephemeral_account", df |-> df,
                          clock |-> clock]
       \/ \E df \in SeqsUpTo(AccountAgeRows, MaxAgeRows), clock \in Clocks :
             call_args = [computer |-> "feature_account_age", df |-> df, clock |-> clock]
    /\ call_out = None

RunsDone == IF call_out = None THEN <<>> ELSE call_out.runs

\* One run of feature_ephemeral_account: today is read from the clock, and so
\* is the timestamp of the result
RunEphemeralAccount ==
    /\ call_args # None
    /\ call_args.computer = "feature_ephemeral_account"
    /\ Len(RunsDone) < 2
    /\ LET now == call_args.clock[Len(RunsDone) + 1]
       IN  call_out' = [runs |-> Append(RunsDone,
                           [returned  |-> feature_ephemeral_account(call_args.df, now),
                            timestamp |-> now])]
    /\ UNCHANGED call_args

\* One run of feature_account_age
RunAccountAge ==
    /\ call_args # None
    /\ call_args.computer = "feature_account_age"
    /\ Len(RunsDone) < 2
    /\ LET now == call_args.clock[Len(RunsDone) + 1]
           out == feature_account_age_printed(call_args.df, now)
       IN  call_out' = [runs |-> Append(RunsDone,
                           [returned |-> out.returned, printed |-> out.printed])]
    /\ UNCHANGED call_args

InitRuns == RunsInputs /\ OthersIdle
NextRuns ==
    \/ RunEphemeralAccount /\ UNCHANGED othersVars
    \/ RunAccountAge /\ UNCHANGED othersVars
SpecRuns == InitRuns /\ [][NextRuns]_vars

\* C25: running a feature computer twice on the same input at two times of
\* the clock returns the same result in every field except timestamp.
C25_SameResultAtAnyTime ==
    (call_out # None /\ Len(call_out.runs) = 2)
        => call_out.runs[1].returned = call_out.runs[2].returned

\* What feature_account_age prints is the same at both times
C25_SamePrintedAccountAge ==
    (/\ call_out # None
     /\ Len(call_out.runs) = 2
     /\ call_args.computer = "feature_account_age")
        => call_out.runs[1].printed = call_out.runs[2].printed


(***************************************************************************)
(* SpecThreads: analyze_partner called by several threads of one process   *)
(* on the same table, one partner each.  A thread runs the statements of   *)
(* analyze_partner in order; the statements of different threads           *)
(* interleave.  sys.stdout is one object reference shared by the process.  *)
(***************************************************************************)
NumThreads == 2

Threads == 1..NumThreads

\* The StringIO() a thread creates
StringIO(t) == [buffer_of |-> t]

ThreadInputs ==
    /\ call_args \in [df       : SeqsUpTo(RankRows, 1),
                      partners : [Threads -> {"p1", "p2"}],
                      verdicts : [Threads -> VerdictProfiles]]
    /\ call_out = [t \in Threads |-> [returned |-> FALSE]]
    /\ sys_stdout = console
    /\ pc = [t \in Threads |-> "old_stdout = sys.stdout"]
    /\ old_stdout = [t \in Threads |-> [stream |-> None]]

\* What the call of thread t returns when it runs alone
ReturnsAlone(t) ==
    analyze_partner(call_args.partners[t], call_args.df, FullColumns, call_args.verdicts[t])

\* old_stdout = sys.stdout
SaveStdout(t) ==
    /\ pc[t] = "old_stdout = sys.stdout"
    /\ old_stdout' = [old_stdout EXCEPT ![t] = [stream |-> sys_stdout]]
    /\ pc' = [pc EXCEPT ![t] = "sys.stdout = StringIO()"]
    /\ UNCHANGED <<call_args, call_out, sys_stdout>>

\* sys.stdout = StringIO()
RedirectStdout(t) ==
    /\ pc[t] = "sys.stdout = StringIO()"
    /\ sys_stdout' = StringIO(t)
    /\ pc' = [pc EXCEPT ![t] = "results = {}"]
    /\ UNCHANGED <<call_args, call_out, old_stdout>>

\* The eight computers, each on its own copy of the table
RunFeatures(t) ==
    /\ pc[t] = "results = {}"
    /\ call_out' = [call_out EXCEPT ![t] =
                       [returned |-> FALSE,
                        results  |-> analyze_partner(call_args.partners[t], call_args.df,
                                                     FullColumns, call_args.verdicts[t])]]
    /\ pc' = [pc EXCEPT ![t] = "sys.stdout = old_stdout"]
    /\ UNCHANGED <<call_args, sys_stdout, old_stdout>>

\* sys.stdout = old_stdout; return results if results else None
RestoreStdout(t) ==
    /\ pc[t] = "sys.stdout = old_stdout"
    /\ sys_stdout' = old_stdout[t].stream
    /\ call_out' = [call_out EXCEPT ![t] = [@ EXCEPT !.returned = TRUE]]
    /\ pc' = [pc EXCEPT ![t] = "done"]
    /\ UNCHANGED <<call_args, old_stdout>>

threadsIdle == <<scoreVars, normVars, rankVars, featVars>>

InitThreads == ThreadInputs /\ IdleScore /\ IdleNorm /\ IdleRank /\ IdleFeat
NextThreads ==
    \/ \E t \in Threads : SaveStdout(t) /\ UNCHANGED threadsIdle
    \/ \E t \in Threads : RedirectStdout(t) /\ UNCHANGED threadsIdle
    \/ \E t \in Threads : RunFeatures(t) /\ UNCHANGED threadsIdle
    \/ \E t \in Threads : RestoreStdout(t) /\ UNCHANGED threadsIdle
SpecThreads == InitThreads /\ [][NextThreads]_vars

AllThreadsDone == pc # <<>> /\ \A t \in Threads : pc[t] = "done"

\* C26: for every interleaving of concurrent analyze_partner calls on the
\* same table each call returns what it returns alone, and sys.stdout is
\* after the calls what it was before them.
C26_ThreadsIndependent ==
    AllThreadsDone =>
        /\ \A t \in Threads : call_out[t].returned /\ call_out[t].results = ReturnsAlone(t)
        /\ sys_stdout = console

\* Each call returns what it returns alone, whatever the interleaving
C26_ResultsIndependent ==
    AllThreadsDone =>
        \A t \in Threads : call_out[t].returned /\ call_out[t].results = ReturnsAlone(t)

\* Calls that do not overlap leave sys.stdout as it was
C26_StdoutRestoredWhenSequential ==
    (AllThreadsDone /\ \A t \in Threads : old_stdout[t].stream = console)
        => sys_stdout = console


(***************************************************************************)
(* Claims on the ranking entries (SpecRank).                               *)
(***************************************************************************)
\* C28: for every ranking entry total_transactions is the number of rows the
\* computers attribute to the partner (logical_partner_id = partner), so
\* every ranked partner had at least min_transactions rows analysed.
C28_TotalIsRowsAnalysed ==
    (rank_out # None /\ rank_dataset # None /\ rank_out.kind = "returned")
        => \A k \in DOMAIN rank_out.results :
              LET e    == rank_out.results[k]
                  rows == prepare_transactions(rank_dataset.df, e.partner_id)
              IN  /\ e.total_transactions = Len(rows)
                  /\ Len(rows) >= min_transactions

\* C29: in the returned list no MEDIUM or LOW entry precedes a HIGH entry and
\* no LOW entry precedes a MEDIUM entry.
C29_OrderedByLevel ==
    (rank_out # None /\ rank_out.kind = "returned")
        => \A j, k \in DOMAIN rank_out.top_suspects :
              j < k => LevelRank(rank_out.top_suspects[j].overall_risk_level)
                         >= LevelRank(rank_out.top_suspects[k].overall_risk_level)


\* The level the aggregate score (in hundredths) alone gives: HIGH from 70,
\* MEDIUM from 40
LevelByScore(score) ==
    IF score >= 7000 THEN "HIGH" ELSE IF score >= 4000 THEN "MEDIUM" ELSE "LOW"

\* C29 amended: the list is in descending score order, and the level of an
\* entry is at least the level that the score of any entry at or after it
\* gives by the thresholds 70 and 40; an entry that is HIGH or MEDIUM by its
\* count of HIGH features can follow an entry of a lower level.
C29_OrderedByScoreLevel ==
    (rank_out # None /\ rank_out.kind = "returned")
        => \A j, k \in DOMAIN rank_out.top_suspects :
              j <= k =>
                 /\ rank_out.top_suspects[j].aggregate_risk_score
                      >= rank_out.top_suspects[k].aggregate_risk_score
                 /\ LevelRank(rank_out.top_suspects[j].overall_risk_level)
                      >= LevelRank(LevelByScore(
                                      rank_out.top_suspects[k].aggregate_risk_score))

\* C29 witness: a MEDIUM entry with the higher score listed before an entry
\* that is HIGH by its three HIGH features
C29_Witness ==
    /\ rank_out # None
    /\ rank_out.kind = "returned"
    /\ Len(rank_out.top_suspects) = 2
    /\ rank_out.top_suspects[1].overall_risk_level = "MEDIUM"
    /\ rank_out.top_suspects[2].overall_risk_level = "HIGH"
    /\ rank_out.top_suspects[2].high_risk_features = 3
    /\ rank_out.top_suspects[1].aggregate_risk_score
         > rank_out.top_suspects[2].aggregate_risk_score

=============================================================================
